---- MODULE Spec2Model ----
(***************************************************************************)
(* Model of memori's Stage (src/memori/stage.py): one memoised unit of     *)
(* work, its three cache files (.stage, .inputs, .outputs) and the files   *)
(* on disk that its inputs and outputs name.                               *)
(***************************************************************************)
EXTENDS Integers, Sequences, FiniteSets, TLC

VARIABLES
    files,              \* the files on disk: path -> bytes, or NoFile
    func_bytes,         \* get_func_hash(function_to_call) of the running code
    cache_dir_exists,   \* the directory hash_output exists on disk
    stage_file,         \* <hash_output>/<stage_name>.stage
    inputs_file,        \* <hash_output>/<stage_name>.inputs
    outputs_file,       \* <hash_output>/<stage_name>.outputs
    hash_output,        \* Stage._hash_output is set (TRUE) or None (FALSE)
    func_kind,          \* which callable the stage wraps
    stage_outputs,      \* Stage.stage_outputs
    stage_args,         \* Stage.stage_args (pinned values)
    stage_input_args,   \* Stage.stage_input_args
    stage_results,      \* Stage.stage_results
    stage_has_run,      \* Stage.stage_has_run (FALSE until the first run sets it)
    stage_from_hash,    \* Stage.stage_from_hash
    runs,               \* number of run calls made so far
    last,               \* observation of the most recent run call
    touched,            \* a file or the code changed since the last run call
    definition,         \* Pipeline.definition: the list of edges
    pl_config,          \* the stages of the pipeline as constructed: name -> arguments
    pl_stages,          \* the stages of the pipeline: name -> fields and cache files
    heap,               \* the list objects that results and inputs refer to
    pl_status,          \* "new", or the outcome of Pipeline.__init__
    pc,                 \* the edge Pipeline.run is at (0: no run in progress)
    pipeline_results,   \* Pipeline.pipeline_results
    pl_error,           \* the error the current or last Pipeline.run raised
    pl_log,             \* the stage runs of the current or last Pipeline.run, in order
    pl_runs,            \* number of Pipeline.run calls made so far
    source,             \* the source text of the modules the stage's callable comes from
    fp,                 \* a call of get_func_hash in progress: its frames and the marked functions
    cwd,                \* the working directory of the process
    scopes,             \* the working_directory scopes that are open, innermost last
    scope_exit,         \* observation of the most recent entry or exit of a scope
    wrapper,            \* a call of main of the memori command: arguments and progress
    writer,             \* a process inside _write_hashes: how far it is, what it writes
    reader              \* what another process read from a cache file

stage_vars == <<files, func_bytes, cache_dir_exists, stage_file, inputs_file,
                outputs_file, hash_output, func_kind, stage_outputs, stage_args,
                stage_input_args, stage_results, stage_has_run, stage_from_hash,
                runs, last, touched>>

pipeline_vars == <<definition, pl_config, pl_stages, heap, pl_status, pc,
                   pipeline_results, pl_error, pl_log, pl_runs>>

module_vars == <<source, fp>>

process_vars == <<cwd, scopes, scope_exit, wrapper, writer, reader>>

vars == <<stage_vars, pipeline_vars, module_vars, process_vars>>

(***************************************************************************)
(* Bounds                                                                  *)
(***************************************************************************)
MaxRuns == 3
MaxPipelineRuns == 2
MaxDepth == 3
MaxBranches == 3
MaxStack == 5

(***************************************************************************)
(* Python values.  Every value is a record [t, v]: t is the Python type,   *)
(* v the payload.  Two values are == in Python iff they are equal here     *)
(* (a list is never equal to a tuple).                                     *)
(***************************************************************************)
PyInt(n) == [t |-> "int", v |-> n]
PyStr(s) == [t |-> "str", v |-> s]
PyList(s) == [t |-> "list", v |-> s]
PyTuple(s) == [t |-> "tuple", v |-> s]
PyDict(d) == [t |-> "dict", v |-> d]
EmptyDict == [k \in {} |-> PyInt(0)]

Paths == {"F", "G"}
NoFile == "absent"
Contents == {"c1", "c2"}

\* dict.update
Update(d, e) == [k \in (DOMAIN d) \cup (DOMAIN e) |-> IF k \in DOMAIN e THEN e[k] ELSE d[k]]

Min(x, y) == IF x <= y THEN x ELSE y

\* os.path.isfile
isfile(fs, s) == s \in Paths /\ fs[s] # NoFile

\* hashlib.sha256(bytes).hexdigest(): distinct bytes, distinct digests
Sha256(c) == IF c = "c1" THEN "sha_c1" ELSE IF c = "c2" THEN "sha_c2" ELSE "sha_other"

hash_file(fs, filename) == Sha256(fs[filename])

FileRecord(fs, p) == PyDict([file |-> PyStr(p), hash |-> PyStr(hash_file(fs, p))])

RECURSIVE hash_files_in_dict(_, _)
\* one entry of a list value
hash_list_entry(fs, v) ==
    IF v.t = "str" /\ isfile(fs, v.v) THEN FileRecord(fs, v.v)
    ELSE IF v.t = "dict" THEN PyDict(hash_files_in_dict(fs, v.v))
    ELSE v

hash_files_in_dict(fs, io_dict) ==
    [key \in DOMAIN io_dict |->
        LET value == io_dict[key] IN
        IF value.t = "str" /\ isfile(fs, value.v) THEN FileRecord(fs, value.v)
        ELSE IF value.t = "dict" THEN PyDict(hash_files_in_dict(fs, value.v))
        ELSE IF value.t = "list"
             THEN PyList([i \in DOMAIN value.v |-> hash_list_entry(fs, value.v[i])])
        ELSE value]

RECURSIVE unhash_files_in_dict(_, _)
\* a dict value: a file-record is replaced by its xtype field
unhash_dict_value(value, xtype) ==
    IF {"file", "hash"} \subseteq DOMAIN value.v
    THEN value.v[xtype]
    ELSE PyDict(unhash_files_in_dict(value.v, xtype))

unhash_files_in_dict(hash_dict, xtype) ==
    [key \in DOMAIN hash_dict |->
        LET value == hash_dict[key] IN
        IF value.t = "dict" THEN unhash_dict_value(value, xtype)
        ELSE IF value.t = "list"
             THEN PyList([i \in DOMAIN value.v |->
                        IF value.v[i].t = "dict"
                        THEN unhash_dict_value(value.v[i], xtype)
                        ELSE value.v[i]])
        ELSE value]

\* json.load(json.dump(x)): a tuple comes back as a list
RECURSIVE json_value(_)
json_value(x) ==
    IF x.t \in {"list", "tuple"} THEN PyList([i \in DOMAIN x.v |-> json_value(x.v[i])])
    ELSE IF x.t = "dict" THEN PyDict([k \in DOMAIN x.v |-> json_value(x.v[k])])
    ELSE x

json_dict(d) == [k \in DOMAIN d |-> json_value(d[k])]


(***************************************************************************)
(* The cache files.  A JSON file is absent, unparseable (empty or cut      *)
(* short by an interrupted write) or holds a mapping.                      *)
(***************************************************************************)
AbsentJson == [st |-> "absent", data |-> EmptyDict]
CorruptJson == [st |-> "corrupt", data |-> EmptyDict]
JsonFile(d) == [st |-> "json", data |-> d]
PartialBytes == "partial"

(***************************************************************************)
(* The wrapped callable.  It takes the parameters (a, b=None), reads the   *)
(* files its inputs name and returns a value that is different for         *)
(* different inputs or file bytes: "single" returns that value alone,      *)
(* "pair" returns it together with the path OutPath, "opens" returns it    *)
(* alone and raises when a file its inputs name does not exist.            *)
(***************************************************************************)
stage_inputs == <<"a", "b">>
Required == {"a"}
OutPath == "F"

RECURSIVE PathsOf(_)
PathsOf(x) ==
    IF x.t = "str" THEN {x.v} \cap Paths
    ELSE IF x.t \in {"list", "tuple"} THEN UNION {PathsOf(x.v[i]) : i \in DOMAIN x.v}
    ELSE IF x.t = "dict" THEN UNION {PathsOf(x.v[k]) : k \in DOMAIN x.v}
    ELSE {}

PathsIn(d) == UNION {PathsOf(d[k]) : k \in DOMAIN d}

FileBytesRead(fs, d) == [p \in PathsIn(d) |-> fs[p]]

Computed(fs, kw) == [t |-> "val", v |-> <<kw, FileBytesRead(fs, kw)>>]

function_to_call(kind, fs, kw) ==
    IF ~(Required \subseteq DOMAIN kw) \/ ~(DOMAIN kw \subseteq {stage_inputs[i] : i \in DOMAIN stage_inputs})
    THEN [error |-> "TypeError", ret |-> PyInt(0)]
    ELSE IF kind = "opens" /\ \E p \in PathsIn(kw) : ~isfile(fs, p)
    THEN [error |-> "FileNotFoundError", ret |-> PyInt(0)]
    ELSE IF kind \in {"single", "opens"}
    THEN [error |-> "", ret |-> Computed(fs, kw)]
    ELSE [error |-> "", ret |-> PyTuple(<<Computed(fs, kw), PyStr(OutPath)>>)]

(***************************************************************************)
(* Stage: the hit check                                                    *)
(***************************************************************************)
check_stage_hash(cache_file, current_stage_bytes) ==
    IF cache_file # NoFile THEN cache_file = current_stage_bytes ELSE FALSE

\* a comparison that also compares the recorded paths
check_io_hash_paths(fs, cache_file, current_io_dict) ==
    IF cache_file.st # "json" THEN FALSE
    ELSE cache_file.data = json_dict(hash_files_in_dict(fs, current_io_dict))

\* a comparison of the recorded paths instead of the recorded digests
check_io_hash_by_path(fs, cache_file, current_io_dict) ==
    LET current_hash_dict == hash_files_in_dict(fs, current_io_dict) IN
    IF cache_file.st = "absent" THEN FALSE
    ELSE IF cache_file.st = "corrupt" THEN FALSE
    ELSE unhash_files_in_dict(cache_file.data, "file")
            = unhash_files_in_dict(current_hash_dict, "file")

check_io_hash(fs, cache_file, current_io_dict) ==
    LET current_hash_dict == hash_files_in_dict(fs, current_io_dict) IN
    IF cache_file.st = "absent" THEN FALSE
    ELSE IF cache_file.st = "corrupt" THEN FALSE
    ELSE unhash_files_in_dict(cache_file.data, "hash")
            = unhash_files_in_dict(current_hash_dict, "hash")

\* the outcome of json.load on the .outputs file followed by the path projection
load_results_from_hash(has_dir, cache_file) ==
    IF ~has_dir THEN [error |-> "AttributeError", results |-> EmptyDict]
    ELSE IF cache_file.st = "absent" THEN [error |-> "FileNotFoundError", results |-> EmptyDict]
    ELSE IF cache_file.st = "corrupt" THEN [error |-> "JSONDecodeError", results |-> EmptyDict]
    ELSE [error |-> "", results |-> unhash_files_in_dict(cache_file.data, "file")]

\* every declared output label is a key of the loaded results
outputs_have_keys(outs, results) ==
    \A i \in DOMAIN outs : outs[i] \in DOMAIN results

\* a hit check that leaves the inputs out
all_checks_no_input(stage_match, input_match, output_hash_exists, output_match) ==
    stage_match /\ output_hash_exists /\ output_match

\* a hit check that does not compare the re-digested outputs
all_checks_no_output(stage_match, input_match, output_hash_exists, output_match) ==
    stage_match /\ input_match /\ output_hash_exists

all_checks(stage_match, input_match, output_hash_exists, output_match) ==
    stage_match /\ input_match /\ output_hash_exists /\ output_match

check_hashes(fs, input_args) ==
    LET stage_match == check_stage_hash(stage_file, func_bytes)
        input_match == check_io_hash(fs, inputs_file, input_args)
        output_hash_exists == outputs_file.st # "absent"
        loaded == load_results_from_hash(TRUE, outputs_file)
        output_match == IF output_hash_exists /\ loaded.error = ""
                        THEN check_io_hash(fs, outputs_file, loaded.results)
                                /\ outputs_have_keys(stage_outputs, loaded.results)
                        ELSE FALSE
    IN  IF output_hash_exists /\ loaded.error # ""
        THEN [error |-> loaded.error, matched |-> FALSE, results |-> stage_results]
        ELSE [error |-> "",
              matched |-> all_checks(stage_match, input_match, output_hash_exists, output_match),
              results |-> IF output_hash_exists THEN loaded.results ELSE stage_results]

(***************************************************************************)
(* Stage.run                                                               *)
(***************************************************************************)
\* lines 167-173: positional values, then named values, then pinned values
bind_inputs(old_input_args, args, kwargs, pinned) ==
    LET n == Min(Len(args), Len(stage_inputs))
        positional == [name \in {stage_inputs[i] : i \in 1..n} |->
                          args[CHOOSE i \in 1..n : stage_inputs[i] = name]]
    IN  Update(Update(Update(old_input_args, positional), kwargs), pinned)

\* a decision in which force_skip_stage has no effect
should_run_ignores_skip(hashes_matched, force_skip_stage, force_run_stage) ==
    force_run_stage \/ ~hashes_matched

\* lines 176-195
should_run(hashes_matched, force_skip_stage, force_run_stage) ==
    IF force_run_stage THEN TRUE
    ELSE IF force_skip_stage THEN FALSE
    ELSE ~hashes_matched

\* lines 205-212
store_outputs(outs, ret) ==
    LET outputs == IF ret.t \in {"tuple", "list"} THEN ret.v ELSE <<ret>>
        n == Min(Len(outs), Len(outputs))
    IN  [key \in {outs[i] : i \in 1..n} |-> outputs[CHOOSE i \in 1..n : outs[i] = key]]

\* a write decision in which force_hash_write has no effect
should_write_only_run(has_dir, has_run, force_hash_write) ==
    has_dir /\ has_run

\* a write decision that does not ask for a cache directory
should_write_without_dir(has_dir, has_run, force_hash_write) ==
    has_run \/ force_hash_write

\* line 225
should_write(has_dir, has_run, force_hash_write) ==
    has_dir /\ (has_run \/ force_hash_write)

\* flags in which a run of the callable leaves stage_from_hash as it was
run_flags_keep_from_hash(stage_ran, from_hash) ==
    [has_run |-> stage_ran, from_hash |-> IF stage_ran THEN from_hash ELSE TRUE]

\* lines 165, 213-216 and 221-222: the two flags after a run that ran the
\* callable, or loaded the results
run_flags(stage_ran, from_hash) ==
    [has_run |-> stage_ran, from_hash |-> ~stage_ran]

\* a run that keeps the results the hit check loaded
reset_results_kept(loaded_results) == loaded_results

\* line 200: the results are reset before the callable is called
reset_results(loaded_results) == EmptyDict

\* the cache files of a run are opened by the hit check (lines 180-182) and
\* by the load of the skipped branch (lines 219, 231-235), which fails on the
\* missing location before it opens anything when there is no cache directory
cache_reads(has_dir, stage_should_run, load_error) ==
    has_dir \/ (~stage_should_run /\ load_error # "AttributeError")

\* what one call of run does, up to the point where the hashes are written
run_outcome(args, kwargs, force_skip_stage, force_run_stage, force_hash_write) ==
    LET input_args == bind_inputs(stage_input_args, args, kwargs, stage_args)
        chk == IF hash_output THEN check_hashes(files, input_args)
               ELSE [error |-> "", matched |-> FALSE, results |-> stage_results]
        stage_should_run == should_run(chk.matched, force_skip_stage, force_run_stage)
        call == function_to_call(func_kind, files, input_args)
        loaded == load_results_from_hash(hash_output, outputs_file)
        reads == cache_reads(hash_output, stage_should_run, loaded.error)
    IN  IF chk.error # ""
        THEN [error |-> chk.error, input_args |-> input_args, results |-> chk.results,
              has_run |-> FALSE, from_hash |-> stage_from_hash, ncalls |-> 0, write |-> FALSE,
              reads |-> reads]
        ELSE IF stage_should_run
        THEN IF call.error # ""
             THEN [error |-> call.error, input_args |-> input_args,
                   results |-> reset_results(chk.results),
                   has_run |-> FALSE, from_hash |-> stage_from_hash, ncalls |-> 1,
                   write |-> FALSE, reads |-> reads]
             ELSE [error |-> "", input_args |-> input_args,
                   results |-> store_outputs(stage_outputs, call.ret),
                   has_run |-> run_flags(TRUE, stage_from_hash).has_run,
                   from_hash |-> run_flags(TRUE, stage_from_hash).from_hash, ncalls |-> 1,
                   write |-> should_write(hash_output, TRUE, force_hash_write),
                   reads |-> reads]
        ELSE IF loaded.error # ""
             THEN [error |-> loaded.error, input_args |-> input_args, results |-> chk.results,
                   has_run |-> FALSE, from_hash |-> stage_from_hash, ncalls |-> 0,
                   write |-> FALSE, reads |-> reads]
             ELSE [error |-> "", input_args |-> input_args, results |-> loaded.results,
                   has_run |-> run_flags(FALSE, stage_from_hash).has_run,
                   from_hash |-> run_flags(FALSE, stage_from_hash).from_hash, ncalls |-> 0,
                   write |-> should_write(hash_output, FALSE, force_hash_write),
                   reads |-> reads]

\* the bytes each cache file receives from _write_hashes
written_inputs(fs, input_args) == JsonFile(json_dict(hash_files_in_dict(fs, input_args)))
written_outputs(fs, results) == JsonFile(json_dict(hash_files_in_dict(fs, results)))

\* the results the callable gives for these effective inputs and files
expected_results(fs, input_args) ==
    store_outputs(stage_outputs, function_to_call(func_kind, fs, input_args).ret)

\* what a run call is seen to do.  correct: its results are the callable's
\* for its effective inputs.  files: the files on disk during the call.
\* checks: what the comparisons of _check_hashes give at the call (the
\* fingerprint, the inputs, the re-digested outputs, the declared labels).
\* prior_skip: the run call before it was a force-skip of the same call that
\* returned results that are not the callable's for its inputs, with
\* ("skip_write") or without ("skip") force_hash_write, and nothing changed
\* in between.
Stale(obs) == obs.kind = "returned" /\ obs.ncalls = 0 /\ ~obs.correct

Observe(kind, args, kwargs, fsk, frn, fhw, out, wrote) ==
    [kind |-> kind, args |-> args, kwargs |-> kwargs, force_skip_stage |-> fsk,
     force_run_stage |-> frn, force_hash_write |-> fhw, error |-> out.error,
     results |-> out.results, ncalls |-> out.ncalls, wrote |-> wrote,
     reads |-> out.reads,
     touched |-> touched, files |-> files,
     checks |-> [stage |-> check_stage_hash(stage_file, func_bytes),
                 input |-> check_io_hash(files, inputs_file, out.input_args),
                 output |-> check_io_hash(files, outputs_file,
                                          unhash_files_in_dict(outputs_file.data, "file")),
                 keys |-> /\ outputs_file.st = "json"
                          /\ outputs_have_keys(stage_outputs, outputs_file.data)],
     correct |-> (out.error = ""
                  /\ out.results = expected_results(files, out.input_args)),
     prior_skip |-> IF Stale(last) /\ last.force_skip_stage
                       /\ ~last.force_run_stage /\ last.args = args
                       /\ last.kwargs = kwargs /\ ~touched
                    THEN (IF last.force_hash_write THEN "skip_write" ELSE "skip")
                    ELSE "none"]

NoRun ==
    [kind |-> "none", args |-> <<>>, kwargs |-> EmptyDict, force_skip_stage |-> FALSE,
     force_run_stage |-> FALSE, force_hash_write |-> FALSE, error |-> "",
     results |-> EmptyDict, ncalls |-> 0, wrote |-> FALSE, reads |-> FALSE,
     touched |-> FALSE,
     files |-> [p \in Paths |-> NoFile],
     checks |-> [stage |-> FALSE, input |-> FALSE, output |-> FALSE, keys |-> FALSE],
     correct |-> FALSE, prior_skip |-> "none"]

\* a run call that returns or raises
Run(args, kwargs, force_skip_stage, force_run_stage, force_hash_write) ==
    LET out == run_outcome(args, kwargs, force_skip_stage, force_run_stage, force_hash_write) IN
    /\ runs < MaxRuns
    /\ runs' = runs + 1
    /\ stage_input_args' = out.input_args
    /\ stage_results' = out.results
    /\ stage_has_run' = out.has_run
    /\ stage_from_hash' = out.from_hash
    /\ IF out.write
       THEN /\ cache_dir_exists' = TRUE
            /\ stage_file' = func_bytes
            /\ inputs_file' = written_inputs(files, out.input_args)
            /\ outputs_file' = written_outputs(files, out.results)
       ELSE UNCHANGED <<cache_dir_exists, stage_file, inputs_file, outputs_file>>
    /\ last' = Observe(IF out.error = "" THEN "returned" ELSE "raised", args, kwargs,
                       force_skip_stage, force_run_stage, force_hash_write, out, out.write)
    /\ touched' = FALSE
    /\ UNCHANGED <<files, func_bytes, hash_output, func_kind, stage_outputs, stage_args>>
    /\ UNCHANGED <<pipeline_vars, module_vars, process_vars>>

\* a run call that is interrupted while _write_hashes writes the three files:
\* 1 .stage truncated, 2 .stage written, 3 .inputs truncated, 4 .inputs
\* written, 5 .outputs truncated
InterruptPoints == 1..5

RunInterrupted(args, kwargs, force_skip_stage, force_run_stage, force_hash_write, point) ==
    LET out == run_outcome(args, kwargs, force_skip_stage, force_run_stage, force_hash_write) IN
    /\ runs < MaxRuns
    /\ out.write
    /\ runs' = runs + 1
    /\ stage_input_args' = out.input_args
    /\ stage_results' = out.results
    /\ stage_has_run' = out.has_run
    /\ stage_from_hash' = out.from_hash
    /\ cache_dir_exists' = TRUE
    /\ stage_file' = IF point = 1 THEN PartialBytes ELSE func_bytes
    /\ inputs_file' = IF point <= 2 THEN inputs_file
                      ELSE IF point = 3 THEN CorruptJson
                      ELSE written_inputs(files, out.input_args)
    /\ outputs_file' = IF point <= 4 THEN outputs_file ELSE CorruptJson
    /\ last' = Observe("interrupted", args, kwargs, force_skip_stage, force_run_stage,
                       force_hash_write, out, FALSE)
    /\ touched' = FALSE
    /\ UNCHANGED <<files, func_bytes, hash_output, func_kind, stage_outputs, stage_args>>
    /\ UNCHANGED <<pipeline_vars, module_vars, process_vars>>

(***************************************************************************)
(* The environment: files are edited or deleted between run calls, and a   *)
(* new process constructs the stage again, possibly around edited code.    *)
(***************************************************************************)
WriteFile(p, c) ==
    /\ files[p] # c
    /\ files' = [files EXCEPT ![p] = c]
    /\ touched' = TRUE
    /\ UNCHANGED <<func_bytes, cache_dir_exists, stage_file, inputs_file, outputs_file,
                   hash_output, func_kind, stage_outputs, stage_args, stage_input_args,
                   stage_results, stage_has_run, stage_from_hash, runs, last>>
    /\ UNCHANGED <<pipeline_vars, module_vars, process_vars>>

DeleteFile(p) ==
    /\ files[p] # NoFile
    /\ files' = [files EXCEPT ![p] = NoFile]
    /\ touched' = TRUE
    /\ UNCHANGED <<func_bytes, cache_dir_exists, stage_file, inputs_file, outputs_file,
                   hash_output, func_kind, stage_outputs, stage_args, stage_input_args,
                   stage_results, stage_has_run, stage_from_hash, runs, last>>
    /\ UNCHANGED <<pipeline_vars, module_vars, process_vars>>

\* Stage.__init__ in a new process, with the same arguments
NewProcess(code) ==
    /\ runs > 0
    /\ func_bytes' = code
    /\ stage_input_args' = EmptyDict
    /\ stage_results' = EmptyDict
    /\ stage_has_run' = FALSE
    /\ stage_from_hash' = FALSE
    /\ touched' = (touched \/ code # func_bytes)
    /\ UNCHANGED <<files, cache_dir_exists, stage_file, inputs_file, outputs_file,
                   hash_output, func_kind, stage_outputs, stage_args, runs, last>>
    /\ UNCHANGED <<pipeline_vars, module_vars, process_vars>>

(***************************************************************************)
(* Pinned values: Stage.set_stage_arg and Stage.del_stage_arg              *)
(***************************************************************************)
DeclaredParams == {stage_inputs[i] : i \in DOMAIN stage_inputs}

\* lines 492-495
set_stage_arg(pinned, arg, value) ==
    IF arg \notin DeclaredParams
    THEN [error |-> "ValueError", stage_args |-> pinned]
    ELSE [error |-> "", stage_args |-> Update(pinned, [k \in {arg} |-> value])]

\* a deletion that does not look at the declared parameters
del_stage_arg_unchecked(pinned, arg) ==
    IF arg \notin DOMAIN pinned
    THEN [error |-> "KeyError", stage_args |-> pinned]
    ELSE [error |-> "", stage_args |-> [k \in (DOMAIN pinned) \ {arg} |-> pinned[k]]]

\* lines 505-508
del_stage_arg(pinned, arg) ==
    IF arg \notin DeclaredParams
    THEN [error |-> "ValueError", stage_args |-> pinned]
    ELSE IF arg \notin DOMAIN pinned
    THEN [error |-> "KeyError", stage_args |-> pinned]
    ELSE [error |-> "", stage_args |-> [k \in (DOMAIN pinned) \ {arg} |-> pinned[k]]]

\* what a set or delete call is seen to do
ObserveArgOp(kind, call, error) ==
    [NoRun EXCEPT !.kind = kind, !.args = call, !.error = error]

SetStageArg(arg, value) ==
    LET out == set_stage_arg(stage_args, arg, value) IN
    /\ stage_args' = out.stage_args
    /\ last' = ObserveArgOp("set_stage_arg", <<PyStr(arg), value>>, out.error)
    /\ touched' = TRUE
    /\ UNCHANGED <<files, func_bytes, cache_dir_exists, stage_file, inputs_file,
                   outputs_file, hash_output, func_kind, stage_outputs, stage_input_args,
                   stage_results, stage_has_run, stage_from_hash, runs>>
    /\ UNCHANGED <<pipeline_vars, module_vars, process_vars>>

DelStageArg(arg) ==
    LET out == del_stage_arg(stage_args, arg) IN
    /\ stage_args' = out.stage_args
    /\ last' = ObserveArgOp("del_stage_arg", <<PyStr(arg)>>, out.error)
    /\ touched' = TRUE
    /\ UNCHANGED <<files, func_bytes, cache_dir_exists, stage_file, inputs_file,
                   outputs_file, hash_output, func_kind, stage_outputs, stage_input_args,
                   stage_results, stage_has_run, stage_from_hash, runs>>
    /\ UNCHANGED <<pipeline_vars, module_vars, process_vars>>

(***************************************************************************)
(* Inputs of the model                                                     *)
(***************************************************************************)
CodeVersions == {"bc1", "bc2"}
Editable == {"F"}
\* (callable, output labels): as many values as labels, fewer, more, and a
\* callable that raises
StageShapes == {<<"single", <<"o">> >>, <<"pair", <<"o", "p">> >>,
                <<"single", <<"o", "p">> >>, <<"pair", <<"o">> >>,
                <<"opens", <<"o">> >>}
\* as many returned values as labels
PlainShapes == {<<"single", <<"o">> >>, <<"pair", <<"o", "p">> >>}
PinnedChoices == {EmptyDict}
\* run calls of the default specification: scalar inputs, every force flag
ScalarArgs == {<<PyInt(1)>>, <<PyInt(2)>>}
\* run calls of SpecInputs: paths and containers of paths, no force flag
PathArgs == {<<PyStr("F")>>, <<PyStr("G")>>, <<PyList(<<PyStr("F")>>)>>,
             <<PyList(<<PyList(<<PyStr("F")>>)>>)>>, <<PyTuple(<<PyStr("F")>>)>>,
             <<PyDict([k |-> PyStr("F")])>>}

\* no pipeline has been defined
\* the stage's callable is given; no module is edited
NoSource == [doc |-> "", k |-> "", op |-> "", lc |-> "", ref |-> "none", decorated |-> FALSE,
             rec |-> FALSE]
\* get_func_hash has not been called
NoFingerprinting == [status |-> "idle", stack |-> <<>>, marked |-> {}]

\* no scope is open and the memori command is not running
OrigDir == "orig"
NoScopeExit == [kind |-> "none", saved |-> OrigDir, path |-> OrigDir]
NoWrapper == [phase |-> "none", parallel |-> FALSE, kill |-> FALSE, codes |-> <<>>,
              done |-> {}, returned |-> -1, signalled |-> FALSE]
\* no run call is inside _write_hashes and no other process has read a file
NoWriter == [point |-> 0, stage |-> NoFile, inputs |-> AbsentJson, outputs |-> AbsentJson,
             previous |-> [stage |-> NoFile, inputs |-> AbsentJson, outputs |-> AbsentJson]]
NoReader == [file |-> "none", content |-> NoFile, previous |-> NoFile, new |-> NoFile]
NoProcess ==
    /\ cwd = OrigDir
    /\ scopes = <<>>
    /\ scope_exit = NoScopeExit
    /\ wrapper = NoWrapper
    /\ writer = NoWriter
    /\ reader = NoReader

NoPipeline ==
    /\ definition = <<>>
    /\ pl_config = EmptyDict
    /\ pl_stages = EmptyDict
    /\ heap = <<>>
    /\ pl_status = "new"
    /\ pc = 0
    /\ pipeline_results = EmptyDict
    /\ pl_error = ""
    /\ pl_log = <<>>
    /\ pl_runs = 0

\* Stage.__init__, lines 81-132: the keyword arguments become the pinned
\* values as they are (line 110)
InitStagePinned(shapes, pins) ==
    /\ func_bytes = "bc1"
    /\ cache_dir_exists = FALSE
    /\ stage_file = NoFile
    /\ inputs_file = AbsentJson
    /\ outputs_file = AbsentJson
    /\ \E shape \in shapes : func_kind = shape[1] /\ stage_outputs = shape[2]
    /\ stage_args \in pins
    /\ stage_input_args = EmptyDict
    /\ stage_results = EmptyDict
    /\ stage_has_run = FALSE
    /\ stage_from_hash = FALSE
    /\ runs = 0
    /\ last = NoRun
    /\ touched = FALSE
    /\ NoPipeline
    /\ source = NoSource
    /\ fp = NoFingerprinting
    /\ NoProcess

InitStage(shapes) == InitStagePinned(shapes, PinnedChoices)

Init ==
    /\ files = [p \in Paths |-> "c1"]
    /\ hash_output \in BOOLEAN
    /\ InitStage(PlainShapes)

Next ==
    \/ \E args \in ScalarArgs, fsk, frn, fhw \in BOOLEAN :
          Run(args, EmptyDict, fsk, frn, fhw)
    \/ \E args \in ScalarArgs, point \in InterruptPoints :
          RunInterrupted(args, EmptyDict, FALSE, FALSE, FALSE, point)
    \/ \E code \in CodeVersions : NewProcess(code)

Spec == Init /\ [][Next]_vars

InitInputs ==
    /\ files = [p \in Paths |-> "c1"]
    /\ hash_output = TRUE
    /\ InitStage(StageShapes)

NextInputs ==
    \/ \E args \in PathArgs : Run(args, EmptyDict, FALSE, FALSE, FALSE)
    \/ \E p \in Editable, c \in Contents : WriteFile(p, c)
    \/ \E p \in Editable : DeleteFile(p)

SpecInputs == InitInputs /\ [][NextInputs]_vars

\* run calls of SpecArgs: positional and named values, pinned values set and
\* deleted between the calls
ArgNames == {"a", "b", "z"}
PinValues == {PyInt(3)}
CallArgs == {<<>>, <<PyInt(1)>>, <<PyInt(1), PyInt(2)>>}
CallKwargs == {EmptyDict, [b |-> PyInt(2)], [a |-> PyInt(2)]}
\* the keyword arguments of the constructor: none, a declared name, another name
ConstructorPins == {EmptyDict, [b |-> PyInt(3)], [z |-> PyInt(3)]}

InitArgs ==
    /\ files = [p \in Paths |-> "c1"]
    /\ hash_output \in BOOLEAN
    /\ InitStagePinned({<<"pair", <<"o", "p">> >>}, ConstructorPins)

NextArgs ==
    \/ \E args \in CallArgs, kwargs \in CallKwargs : Run(args, kwargs, FALSE, FALSE, FALSE)
    \/ \E arg \in ArgNames, value \in PinValues : SetStageArg(arg, value)
    \/ \E arg \in ArgNames : DelStageArg(arg)

SpecArgs == InitArgs /\ [][NextArgs]_vars

(***************************************************************************)
(* List objects.  A list held at the top level of an input or result map   *)
(* is an object with an identity: the map holds a reference to it, and     *)
(* several maps can hold the same object.  heap[i] is the content of       *)
(* object i.                                                               *)
(***************************************************************************)
PyRef(i) == [t |-> "ref", v |-> i]

\* the map with every reference replaced by the list it refers to now
Deref(h, d) == [k \in DOMAIN d |-> IF d[k].t = "ref" THEN PyList(h[d[k].v]) ELSE d[k]]

\* new list objects for the lists of a map that was just built (returned by
\* the callable, or parsed from JSON)
RECURSIVE AllocLists(_, _, _)
AllocLists(h, d, keys) ==
    IF keys = {} THEN [heap |-> h, dict |-> d]
    ELSE LET key == CHOOSE k \in keys : TRUE IN
         IF d[key].t = "list"
         THEN AllocLists(Append(h, d[key].v), [d EXCEPT ![key] = PyRef(Len(h) + 1)],
                         keys \ {key})
         ELSE AllocLists(h, d, keys \ {key})

\* _hash_files_in_dict, lines 313-323: the map's entry is rebound to a copy
\* of the list, and the entries of the list object itself are replaced
RECURSIVE hash_lists_in_place(_, _, _, _)
hash_lists_in_place(h, fs, io_dict, keys) ==
    IF keys = {} THEN [heap |-> h, io_dict |-> io_dict]
    ELSE LET key == CHOOSE k \in keys : TRUE
             value == io_dict[key]
         IN  IF value.t = "ref"
             THEN LET old == h[value.v]
                      hashed == [i \in DOMAIN old |-> hash_list_entry(fs, old[i])]
                  IN  hash_lists_in_place(Append([h EXCEPT ![value.v] = hashed], old), fs,
                                          [io_dict EXCEPT ![key] = PyRef(Len(h) + 1)],
                                          keys \ {key})
             ELSE hash_lists_in_place(h, fs, io_dict, keys \ {key})

\* _unhash_files_in_dict, lines 369-373, applied to the map that
\* _hash_files_in_dict returned: it holds the list objects themselves
RECURSIVE unhash_lists_in_place(_, _, _, _)
unhash_lists_in_place(h, hash_dict, xtype, keys) ==
    IF keys = {} THEN h
    ELSE LET key == CHOOSE k \in keys : TRUE
             value == hash_dict[key]
         IN  IF value.t = "ref"
             THEN LET old == h[value.v]
                      unhashed == [i \in DOMAIN old |->
                                     IF old[i].t = "dict" THEN unhash_dict_value(old[i], xtype)
                                     ELSE old[i]]
                  IN  unhash_lists_in_place([h EXCEPT ![value.v] = unhashed], hash_dict,
                                            xtype, keys \ {key})
             ELSE unhash_lists_in_place(h, hash_dict, xtype, keys \ {key})

(***************************************************************************)
(* Stage.run of a stage of a pipeline.  cfg holds what the stage was       *)
(* constructed with, st its fields and its three cache files.              *)
(***************************************************************************)
\* the callable of stage name: it fails when a required parameter is unbound
\* or (raises) by itself; it returns one value per entry of returns, a new
\* list of paths or a value that tells what it was called with
pl_call(name, cfg, kw) ==
    IF \/ ~(cfg.required \subseteq DOMAIN kw)
       \/ ~(DOMAIN kw \subseteq {cfg.stage_inputs[i] : i \in DOMAIN cfg.stage_inputs})
    THEN [error |-> "TypeError", ret |-> <<>>]
    ELSE IF cfg.raises
    THEN [error |-> "RuntimeError", ret |-> <<>>]
    ELSE [error |-> "",
          ret |-> [i \in DOMAIN cfg.returns |->
                     IF cfg.returns[i] = "pathlist" THEN PyList(<<PyStr("F")>>)
                     ELSE [t |-> "val", v |-> <<name, i, kw>>]]]

\* lines 167-173 for the parameters of this stage
pl_bind(inputs, old_input_args, args, kwargs, pinned) ==
    LET n == Min(Len(args), Len(inputs))
        positional == [name \in {inputs[i] : i \in 1..n} |->
                          args[CHOOSE i \in 1..n : inputs[i] = name]]
    IN  Update(Update(Update(old_input_args, positional), kwargs), pinned)

\* lines 243-275
pl_check_hashes(cfg, st, fs, input_args) ==
    LET stage_match == check_stage_hash(st.stage_file, cfg.func_bytes)
        input_match == check_io_hash(fs, st.inputs_file, input_args)
        output_hash_exists == st.outputs_file.st # "absent"
        loaded == load_results_from_hash(TRUE, st.outputs_file)
        output_match == IF output_hash_exists /\ loaded.error = ""
                        THEN check_io_hash(fs, st.outputs_file, loaded.results)
                                /\ outputs_have_keys(cfg.stage_outputs, loaded.results)
                        ELSE FALSE
    IN  IF output_hash_exists /\ loaded.error # ""
        THEN [error |-> loaded.error, matched |-> FALSE]
        ELSE [error |-> "",
              matched |-> all_checks(stage_match, input_match, output_hash_exists,
                                     output_match)]

\* one call of run on a stage of the pipeline, lines 164-229.  The result
\* tells the stage's new fields and files, the new heap, the error raised,
\* whether the callable was invoked and what it received.
pl_run(name, cfg, st, h, fs, args, kwargs) ==
    LET input0 == pl_bind(cfg.stage_inputs, st.stage_input_args, args, kwargs, cfg.stage_args)
        \* line 403, and line 409 when the .inputs file can be parsed
        hashed == hash_lists_in_place(h, fs, input0, DOMAIN input0)
        h1 == IF ~cfg.hash_output THEN h
              ELSE IF st.inputs_file.st = "json"
              THEN unhash_lists_in_place(hashed.heap, input0, "hash", DOMAIN input0)
              ELSE hashed.heap
        input1 == IF cfg.hash_output THEN hashed.io_dict ELSE input0
        chk == IF cfg.hash_output THEN pl_check_hashes(cfg, st, fs, Deref(h, input0))
               ELSE [error |-> "", matched |-> FALSE]
        stage_should_run == should_run(chk.matched, FALSE, FALSE)
        received == Deref(h1, input1)
        call == pl_call(name, cfg, received)
        loaded == load_results_from_hash(cfg.hash_output, st.outputs_file)
        fresh == IF stage_should_run
                 THEN store_outputs(cfg.stage_outputs, PyTuple(call.ret))
                 ELSE loaded.results
        alloc == AllocLists(h1, fresh, DOMAIN fresh)
        error == IF chk.error # "" THEN chk.error
                 ELSE IF stage_should_run THEN call.error
                 ELSE loaded.error
        has_run == error = "" /\ stage_should_run
        write == error = "" /\ should_write(cfg.hash_output, has_run, FALSE)
    IN  [error |-> error,
         called |-> (chk.error = "" /\ stage_should_run),
         received |-> received,
         heap |-> IF error = "" THEN alloc.heap ELSE h1,
         st |-> [stage_input_args |-> input1,
                 stage_results |-> IF error = "" THEN alloc.dict
                                   ELSE IF chk.error = "" /\ stage_should_run THEN EmptyDict
                                   ELSE st.stage_results,
                 stage_has_run |-> has_run,
                 stage_from_hash |-> IF error = "" THEN ~stage_should_run
                                     ELSE st.stage_from_hash,
                 stage_file |-> IF write THEN cfg.func_bytes ELSE st.stage_file,
                 inputs_file |-> IF write THEN written_inputs(fs, received)
                                 ELSE st.inputs_file,
                 outputs_file |-> IF write THEN written_outputs(fs, fresh)
                                  ELSE st.outputs_file,
                 produced |-> IF error = "" THEN fresh ELSE EmptyDict]]

(***************************************************************************)
(* Stage.results and Pipeline                                              *)
(***************************************************************************)
\* Stage.results, lines 586-589: the aliases are applied in the order of the
\* alias map; an alias whose target is not a key raises KeyError
RECURSIVE results_from(_, _, _)
results_from(res, stage_aliases, i) ==
    IF i > Len(stage_aliases) THEN [error |-> "", results |-> res]
    ELSE LET alias == stage_aliases[i][1]
             orig_key == stage_aliases[i][2]
         IN  IF orig_key \notin DOMAIN res THEN [error |-> "KeyError", results |-> res]
             ELSE results_from(Update(res, [k \in {alias} |-> res[orig_key]]),
                               stage_aliases, i + 1)

results(st_results, stage_aliases) == results_from(st_results, stage_aliases, 1)

StageNames == {"A", "B", "C", "D"}

\* an edge (input_stages, stage_to_run); input_stages is a tuple or one bare
\* element; an element is a stage, the string "start" or something else
Edge(is_tuple, elems, stage) == [tuple |-> is_tuple, input_stages |-> elems, stage |-> stage]
Bare(elem, stage) == Edge(FALSE, <<elem>>, stage)

\* Pipeline.__init__, lines 40-48
elements_of(defn) ==
    UNION {{defn[i].stage} \cup {defn[i].input_stages[j] : j \in DOMAIN defn[i].input_stages}
           : i \in DOMAIN defn}

pipeline_init(defn) ==
    IF \A stage \in elements_of(defn) : stage \in StageNames \/ stage = "start"
    THEN "ok" ELSE "ValueError"

\* lines 83-86: the predecessors' results in listed order, then the pinned
\* values of the stage to run
RECURSIVE combine_results(_, _, _, _, _)
combine_results(input_stages, i, stages, cfgs, combined) ==
    IF i > Len(input_stages) THEN [error |-> "", combined |-> combined]
    ELSE LET s == input_stages[i] IN
         IF s \notin StageNames THEN [error |-> "AttributeError", combined |-> combined]
         ELSE LET r == results(stages[s].stage_results, cfgs[s].stage_aliases) IN
              IF r.error # "" THEN [error |-> r.error, combined |-> combined]
              ELSE combine_results(input_stages, i + 1, stages, cfgs,
                                   Update(combined, r.results))

\* lines 88-95
select_inputs(inputs, combined) ==
    [arg \in {inputs[i] : i \in DOMAIN inputs} \cap DOMAIN combined |-> combined[arg]]

\* the edge the run is at
edge_at_reversed(defn, index) == defn[Len(defn) + 1 - index]

edge_at(defn, index) == defn[index]

\* line 110 is skipped when the stage raised
after_edge(results_so_far, st_results, error) ==
    IF error # "" THEN results_so_far ELSE Update(results_so_far, st_results)

\* what line 110 adds: the stage's stored results, without its aliases
contributed_with_aliases(st_results, stage_aliases) == results(st_results, stage_aliases).results

contributed(st_results, stage_aliases) == st_results

\* the arguments of Pipeline.run
PipelineArgs == <<PyInt(1)>>

\* lines 70-107 for one edge: the error raised before the stage's run was
\* entered, or the call of run that is made
edge_call(edge, stages, cfgs) ==
    IF ~edge.tuple /\ edge.input_stages = <<"start">>
    THEN [error |-> IF edge.stage \in StageNames THEN "" ELSE "AttributeError",
          args |-> PipelineArgs, kwargs |-> EmptyDict]
    ELSE LET c == combine_results(edge.input_stages, 1, stages, cfgs, EmptyDict) IN
         IF c.error # "" THEN [error |-> c.error, args |-> <<>>, kwargs |-> EmptyDict]
         ELSE IF edge.stage \notin StageNames
         THEN [error |-> "AttributeError", args |-> <<>>, kwargs |-> EmptyDict]
         ELSE [error |-> "", args |-> <<>>,
               kwargs |-> select_inputs(cfgs[edge.stage].stage_inputs,
                                        Update(c.combined, cfgs[edge.stage].stage_args))]

\* the cache files of a stage, lines 624-626: directory and stage name
cache_entry(cfg) == <<cfg.hash_output, cfg.stage_name>>

\* what another stage finds in its cache files after a stage has run: the
\* files of that stage, when both resolve to the same paths
shared_files(cfg, cfg_run, st, st_run) ==
    IF cfg.hash_output /\ cache_entry(cfg) = cache_entry(cfg_run)
    THEN [st EXCEPT !.stage_file = st_run.stage_file, !.inputs_file = st_run.inputs_file,
                    !.outputs_file = st_run.outputs_file]
    ELSE st

stages_after(stages, cfgs, name, st_run) ==
    [n \in StageNames |->
        IF n = name THEN st_run ELSE shared_files(cfgs[n], cfgs[name], stages[n], st_run)]

Construct ==
    /\ pl_status = "new"
    /\ definition # <<>>
    /\ pl_status' = pipeline_init(definition)
    /\ pipeline_results' = EmptyDict
    /\ UNCHANGED <<definition, pl_config, pl_stages, heap, pc, pl_error, pl_log, pl_runs>>
    /\ UNCHANGED <<stage_vars, module_vars, process_vars>>

\* Pipeline.run is called
StartRun ==
    /\ pl_status = "ok"
    /\ pc = 0
    /\ pl_runs < MaxPipelineRuns
    /\ pl_runs' = pl_runs + 1
    /\ pc' = 1
    /\ pl_error' = ""
    /\ pl_log' = <<>>
    /\ UNCHANGED <<definition, pl_config, pl_stages, heap, pl_status, pipeline_results>>
    /\ UNCHANGED <<stage_vars, module_vars, process_vars>>

\* one iteration of the loop of Pipeline.run, lines 69-110
StepEdge ==
    /\ pc # 0
    /\ LET edge == edge_at(definition, pc)
           call == edge_call(edge, pl_stages, pl_config)
       IN  IF call.error # ""
           THEN /\ pl_error' = call.error
                /\ pc' = 0
                /\ UNCHANGED <<pl_stages, heap, pipeline_results, pl_log>>
           ELSE LET name == edge.stage
                    out == pl_run(name, pl_config[name], pl_stages[name], heap, files,
                                  call.args, call.kwargs)
                IN  /\ pl_stages' = stages_after(pl_stages, pl_config, name, out.st)
                    /\ heap' = out.heap
                    /\ pl_log' = Append(pl_log, [stage |-> name, called |-> out.called,
                                                 received |-> out.received,
                                                 error |-> out.error])
                    /\ pl_error' = out.error
                    /\ pipeline_results' =
                          after_edge(pipeline_results,
                                     contributed(out.st.stage_results,
                                                 pl_config[name].stage_aliases),
                                     out.error)
                    /\ pc' = IF out.error # "" \/ pc = Len(definition) THEN 0 ELSE pc + 1
    /\ UNCHANGED <<definition, pl_config, pl_status, pl_runs>>
    /\ UNCHANGED <<stage_vars, module_vars, process_vars>>

\* the stages and definitions of SpecPipeline
AliasChoices == {<<>>, << <<"c2", "v">> >>, << <<"c2", "fl">> >>,
                 << <<"x2", "fl">>, <<"fl", "v">> >>, << <<"c2", "nope">> >>}
\* the fingerprint of a stage's callable: callables of different signatures
\* have different ones
StageConfig(stage_name, inputs, required, outs, pinned, aliases, cache, returns, raises) ==
    [stage_name |-> stage_name, stage_inputs |-> inputs, required |-> required,
     stage_outputs |-> outs, stage_args |-> pinned, stage_aliases |-> aliases,
     hash_output |-> cache, returns |-> returns, raises |-> raises,
     func_bytes |-> "bc:" \o inputs[1]]
NewStage ==
    [stage_input_args |-> EmptyDict, stage_results |-> EmptyDict, stage_has_run |-> FALSE,
     stage_from_hash |-> FALSE, stage_file |-> NoFile, inputs_file |-> AbsentJson,
     outputs_file |-> AbsentJson, produced |-> EmptyDict]
Definitions ==
    {<<Bare("start", "A"), Bare("A", "C"), Bare("A", "D")>>,
     <<Bare("start", "A"), Bare("start", "B"), Edge(TRUE, <<"A", "B">>, "C")>>,
     <<Bare("start", "A"), Bare("start", "B"), Edge(TRUE, <<"B", "A">>, "C")>>,
     <<Bare("A", "C"), Bare("start", "A")>>,
     <<Bare("start", "A"), Bare("A", "C"), Bare("A", "C")>>,
     <<Bare("invalid", "A")>>,
     <<Bare("start", "invalid")>>,
     <<Bare("start", "A"), Edge(TRUE, <<"A", "invalid">>, "C")>>,
     <<Bare("start", "A"), Bare("A", "start")>>,
     <<Bare("start", "A"), Edge(TRUE, <<"start", "A">>, "C")>>}

InitPipeline ==
    /\ files = [p \in Paths |-> "c1"]
    /\ hash_output = FALSE
    /\ func_bytes = "bc1"
    /\ cache_dir_exists = FALSE
    /\ stage_file = NoFile
    /\ inputs_file = AbsentJson
    /\ outputs_file = AbsentJson
    /\ func_kind = "single"
    /\ stage_outputs = <<"o">>
    /\ stage_args = EmptyDict
    /\ stage_input_args = EmptyDict
    /\ stage_results = EmptyDict
    /\ stage_has_run = FALSE
    /\ stage_from_hash = FALSE
    /\ runs = 0
    /\ last = NoRun
    /\ touched = FALSE
    /\ definition \in Definitions
    /\ \E cache \in BOOLEAN, aliases \in AliasChoices, c_required \in {{}, {"w"}},
          c_pinned \in {EmptyDict, [v |-> PyInt(9)]}, b_raises \in BOOLEAN,
          d_name \in {"f2", "f3"} :
          /\ d_name = "f2" => (cache /\ aliases = <<>> /\ c_required = {} /\ ~b_raises)
          /\ pl_config =
             [name \in StageNames |->
                IF name = "A"
                THEN StageConfig("f0", <<"x">>, {"x"}, <<"v", "fl">>, EmptyDict, aliases, cache,
                                 <<"scalar", "pathlist">>, FALSE)
                ELSE IF name = "B"
                THEN StageConfig("f1", <<"x">>, {"x"}, <<"v">>, EmptyDict, <<>>, cache,
                                 <<"scalar">>, b_raises)
                ELSE IF name = "C"
                THEN StageConfig("f2", <<"v", "fl", "c2", "w">>, c_required, <<"r">>, c_pinned,
                                 <<>>, cache, <<"scalar">>, FALSE)
                ELSE StageConfig(d_name, <<"fl">>, {"fl"}, <<"r2">>, EmptyDict, <<>>, cache,
                                 <<"scalar">>, FALSE)]
    /\ pl_stages = [name \in StageNames |-> NewStage]
    /\ heap = <<>>
    /\ pl_status = "new"
    /\ pc = 0
    /\ pipeline_results = EmptyDict
    /\ pl_error = ""
    /\ pl_log = <<>>
    /\ pl_runs = 0
    /\ source = NoSource
    /\ fp = NoFingerprinting
    /\ NoProcess

NextPipeline ==
    \/ Construct
    \/ StartRun
    \/ StepEdge

SpecPipeline == InitPipeline /\ [][NextPipeline]_vars

(***************************************************************************)
(* The fingerprint of the callable: get_methods and get_func_hash          *)
(***************************************************************************)
\* a code object: co_consts, co_code and the instructions dis lists for it
Code(consts, code, instructions) ==
    [co_consts |-> consts, co_code |-> code, instructions |-> instructions]
NoCode == Code(<<>>, "", <<>>)
\* an entry of co_consts: a constant, by its repr, or a nested code object
Const(repr) == [is_code |-> FALSE, repr |-> repr, code |-> NoCode]
CodeConst(c) == [is_code |-> TRUE, repr |-> "", code |-> c]
Instruction(opname, argval) == [opname |-> opname, argval |-> argval]

\* module helper:  def f(x): """doc"""; return [i <op> lc for i in x] + [k]
\* and, when rec, a call of f itself by its global name
listcomp_code(src) == Code(<<Const(src.lc)>>, "<listcomp " \o src.op \o ">", <<>>)
f_code(src) ==
    Code(<<Const("'" \o src.doc \o "'"), CodeConst(listcomp_code(src)), Const(src.k)>>,
         "<f>", <<Instruction("LOAD_CONST", "listcomp"), Instruction("LOAD_FAST", "x")>>
                   \o (IF src.rec THEN <<Instruction("LOAD_GLOBAL", "f")>> ELSE <<>>))

\* the callable g of the stage, one way of referring to f each
RefStyles == {"global_call", "module_call", "method_call", "attr_ref", "closure",
              "nested_def", "inline_marker", "marker_on_local"}
inner_code == Code(<<Const("None")>>, "<inner>",
                   <<Instruction("LOAD_GLOBAL", "f"), Instruction("LOAD_FAST", "y")>>)
\* inner = hashable(lambda y: y); return f(inner(x))
lambda_code == Code(<<Const("None")>>, "<lambda>", <<Instruction("LOAD_FAST", "y")>>)
g_code(src) ==
    IF src.ref = "marker_on_local"
    THEN Code(<<Const("None"), CodeConst(lambda_code)>>, "<g local>",
              <<Instruction("LOAD_GLOBAL", "hashable"), Instruction("LOAD_CONST", "lambda"),
                Instruction("MAKE_FUNCTION", ""), Instruction("STORE_FAST", "inner"),
                Instruction("LOAD_GLOBAL", "f"), Instruction("LOAD_FAST", "inner"),
                Instruction("LOAD_FAST", "x")>>)
    ELSE IF src.ref = "global_call"
    THEN Code(<<Const("None")>>, "<g global>",
              <<Instruction("LOAD_GLOBAL", "f"), Instruction("LOAD_FAST", "x")>>)
    ELSE IF src.ref = "module_call"
    THEN Code(<<Const("None")>>, "<g module>",
              <<Instruction("LOAD_GLOBAL", "helper"), Instruction("LOAD_ATTR", "f"),
                Instruction("LOAD_FAST", "x")>>)
    ELSE IF src.ref = "method_call"
    THEN Code(<<Const("None")>>, "<g method>",
              <<Instruction("LOAD_GLOBAL", "ns"), Instruction("LOAD_METHOD", "f"),
                Instruction("LOAD_FAST", "x")>>)
    ELSE IF src.ref = "attr_ref"
    THEN Code(<<Const("None")>>, "<g attr>",
              <<Instruction("LOAD_GLOBAL", "helper"), Instruction("LOAD_ATTR", "f"),
                Instruction("STORE_FAST", "k"), Instruction("LOAD_FAST", "k"),
                Instruction("LOAD_FAST", "x")>>)
    ELSE IF src.ref = "closure"
    THEN Code(<<Const("None")>>, "<g closure>",
              <<Instruction("LOAD_DEREF", "f"), Instruction("LOAD_FAST", "x")>>)
    ELSE IF src.ref = "nested_def"
    THEN Code(<<Const("None"), CodeConst(inner_code)>>, "<g nested>",
              <<Instruction("LOAD_CONST", "inner"), Instruction("STORE_FAST", "inner"),
                Instruction("LOAD_FAST", "inner"), Instruction("LOAD_FAST", "x")>>)
    ELSE Code(<<Const("None")>>, "<g inline>",
              <<Instruction("LOAD_GLOBAL", "hashable"), Instruction("LOAD_GLOBAL", "f"),
                Instruction("LOAD_FAST", "x")>>)

\* what getattr(current_module, name, None) finds in the module of g
GlobalKind(name) ==
    IF name = "f" THEN "function"
    ELSE IF name = "hashable" THEN "hashable"
    ELSE IF name \in {"helper", "ns"} THEN "module"
    ELSE "none"

\* lines 676-693: after a module-like global, LOAD_ATTR is followed, LOAD_METHOD
\* yields the method, anything else ends the search
RECURSIVE scan_attributes(_, _)
scan_attributes(instructions, subindex) ==
    IF subindex > Len(instructions) THEN [found |-> FALSE, subindex |-> subindex]
    ELSE IF instructions[subindex].opname = "LOAD_ATTR"
    THEN scan_attributes(instructions, subindex + 1)
    ELSE IF instructions[subindex].opname = "LOAD_METHOD"
    THEN [found |-> TRUE, subindex |-> subindex]
    ELSE [found |-> FALSE, subindex |-> subindex]

\* get_methods, lines 646-697: the functions found and those to mark
RECURSIVE scan_instructions(_, _, _, _, _)
scan_instructions(instructions, index, hash_flag, modules, functions_to_hash) ==
    IF index > Len(instructions)
    THEN [modules |-> modules, functions_to_hash |-> functions_to_hash]
    ELSE LET current_instruction == instructions[index]
             kind == GlobalKind(current_instruction.argval)
             marked == IF hash_flag THEN functions_to_hash \cup {current_instruction.argval}
                       ELSE functions_to_hash
         IN  IF current_instruction.opname # "LOAD_GLOBAL" \/ kind = "none"
             THEN scan_instructions(instructions, index + 1, hash_flag, modules,
                                    functions_to_hash)
             ELSE IF kind = "hashable"
             THEN scan_instructions(instructions, index + 1, TRUE, modules, marked)
             ELSE IF kind = "function"
             THEN scan_instructions(instructions, index + 1, FALSE,
                                    modules \cup {current_instruction.argval}, marked)
             ELSE LET a == scan_attributes(instructions, index + 1) IN
                  IF a.found
                  THEN scan_instructions(instructions, a.subindex + 1, FALSE,
                                         modules \cup {instructions[a.subindex].argval},
                                         marked)
                  ELSE scan_instructions(instructions, index + 1, FALSE, modules, marked)

get_methods(instructions) == scan_instructions(instructions, 1, FALSE, {}, {})

\* str(tuple) of the reprs
RECURSIVE join(_, _)
join(reprs, i) ==
    IF i > Len(reprs) THEN ""
    ELSE IF i = Len(reprs) THEN reprs[i]
    ELSE reprs[i] \o ", " \o join(reprs, i + 1)

str_tuple(reprs) ==
    IF Len(reprs) = 1 THEN "(" \o reprs[1] \o ",)" ELSE "(" \o join(reprs, 1) \o ")"

\* co_consts[1:], lines 778 and 791
drop_first(consts) == IF consts = <<>> THEN <<>> ELSE Tail(consts)

RECURSIVE filtered_consts(_)
filtered_consts(consts) ==
    IF consts = <<>> THEN <<>>
    ELSE IF Head(consts).is_code THEN filtered_consts(Tail(consts))
    ELSE <<Head(consts).repr>> \o filtered_consts(Tail(consts))

\* get_func_hash, lines 746-843; a function with the marker is hashed
\* through its wrapper (get_wrapped_callable), any other function the callable
\* is found to use contributes its qualified name only
RECURSIVE get_func_hash(_, _)
RECURSIVE nested_code_objects(_, _)
nested_code_objects(consts, src) ==
    IF consts = <<>> THEN ""
    ELSE IF Head(consts).is_code
    THEN get_func_hash(Head(consts).code, src) \o nested_code_objects(Tail(consts), src)
    ELSE nested_code_objects(Tail(consts), src)

get_func_hash(func, src) ==
    LET consts == drop_first(func.co_consts)
        found == get_methods(func.instructions)
        hashable_f == "f" \in found.modules /\ (src.decorated \/ "f" \in found.functions_to_hash)
        methods_strs == IF "f" \in found.modules /\ ~hashable_f THEN <<"'helper.f'">> ELSE <<>>
    IN  str_tuple(filtered_consts(consts)) \o str_tuple(methods_strs) \o func.co_code
           \o nested_code_objects(consts, src)
           \o (IF hashable_f THEN get_func_hash(f_code(src), src) ELSE "")

\* the fields of the source of f, and the versions of each
BaseF == [doc |-> "d1", k |-> "5", op |-> "add", lc |-> "1"]
EditedF == [doc |-> "d2", k |-> "6", op |-> "sub", lc |-> "2"]
BodyFields == {"k", "op", "lc"}
Fields == {"doc"} \cup BodyFields
BodyOf(src) == [field \in Fields |-> src[field]]

\* f is edited and the program started again; func_bytes is what
\* _get_function_byte_code (line 513) yields for g from then on
EditF(field) ==
    /\ BodyOf(source) = BaseF
    /\ source' = [source EXCEPT ![field] = EditedF[field]]
    /\ fp' = fp
    /\ func_bytes' = get_func_hash(g_code(source'), source')
    /\ stage_input_args' = EmptyDict
    /\ stage_results' = EmptyDict
    /\ stage_has_run' = FALSE
    /\ stage_from_hash' = FALSE
    /\ touched' = TRUE
    /\ UNCHANGED <<files, cache_dir_exists, stage_file, inputs_file, outputs_file,
                   hash_output, func_kind, stage_outputs, stage_args, runs, last>>
    /\ UNCHANGED <<pipeline_vars, process_vars>>

InitFingerprint ==
    /\ files = [p \in Paths |-> "c1"]
    /\ hash_output = TRUE
    /\ \E ref \in RefStyles, decorated \in BOOLEAN :
          source = [doc |-> BaseF.doc, k |-> BaseF.k, op |-> BaseF.op, lc |-> BaseF.lc,
                    ref |-> ref, decorated |-> decorated, rec |-> FALSE]
    /\ fp = NoFingerprinting
    /\ func_bytes = get_func_hash(g_code(source), source)
    /\ cache_dir_exists = FALSE
    /\ stage_file = NoFile
    /\ inputs_file = AbsentJson
    /\ outputs_file = AbsentJson
    /\ func_kind = "single"
    /\ stage_outputs = <<"o">>
    /\ stage_args = EmptyDict
    /\ stage_input_args = EmptyDict
    /\ stage_results = EmptyDict
    /\ stage_has_run = FALSE
    /\ stage_from_hash = FALSE
    /\ runs = 0
    /\ last = NoRun
    /\ touched = FALSE
    /\ NoPipeline
    /\ NoProcess

NextFingerprint ==
    \/ \E args \in ScalarArgs : Run(args, EmptyDict, FALSE, FALSE, FALSE)
    \/ \E field \in Fields : EditF(field)

SpecFingerprint == InitFingerprint /\ [][NextFingerprint]_vars

(***************************************************************************)
(* get_func_hash(g) call by call.  Each call of get_func_hash is a frame:  *)
(* the code object it works on and what it has still to descend into, the  *)
(* nested code objects of co_consts[1:] first (lines 803-808), then the    *)
(* functions get_methods found (lines 813-821).  fp.marked are the         *)
(* functions that have the attribute __memori_hashable__.  The interpreter *)
(* ends a call chain deeper than its recursion limit with RecursionError.  *)
(***************************************************************************)
CodeItem(c) == [kind |-> "code", code |-> c, name |-> ""]
FuncItem(name) == [kind |-> "func", code |-> NoCode, name |-> name]

RECURSIVE code_items(_)
code_items(consts) ==
    IF consts = <<>> THEN <<>>
    ELSE IF Head(consts).is_code
    THEN <<CodeItem(Head(consts).code)>> \o code_items(Tail(consts))
    ELSE code_items(Tail(consts))

\* the start of a call of get_func_hash on a code object: get_methods sets
\* the attribute on the functions it found after the marker (lines 725-727)
enter(code, marked) ==
    LET found == get_methods(code.instructions) IN
    [frame |-> [code |-> code.co_code,
                todo |-> code_items(drop_first(code.co_consts))
                            \o (IF "f" \in found.modules THEN <<FuncItem("f")>> ELSE <<>>)],
     marked |-> marked \cup (found.functions_to_hash \cap found.modules)]

\* what the top frame does next
TopFrame == fp.stack[Len(fp.stack)]
NextItem == Head(TopFrame.todo)
Descends == NextItem.kind = "code" \/ NextItem.name \in fp.marked
WithoutNextItem ==
    [fp.stack EXCEPT ![Len(fp.stack)] = [TopFrame EXCEPT !.todo = Tail(TopFrame.todo)]]

\* get_func_hash(g) is called
StartHash ==
    /\ fp.status = "idle"
    /\ LET e == enter(g_code(source), fp.marked) IN
       fp' = [status |-> "running", stack |-> <<e.frame>>, marked |-> e.marked]
    /\ UNCHANGED <<stage_vars, pipeline_vars, process_vars, source>>

\* lines 806 and 821: the recursive call
Recurse ==
    /\ fp.status = "running"
    /\ TopFrame.todo # <<>>
    /\ Descends
    /\ IF Len(fp.stack) >= MaxStack
       THEN fp' = [fp EXCEPT !.status = "RecursionError", !.stack = <<>>]
       ELSE LET e == enter(IF NextItem.kind = "code" THEN NextItem.code ELSE f_code(source),
                           fp.marked)
            IN  fp' = [fp EXCEPT !.stack = Append(WithoutNextItem, e.frame),
                                 !.marked = e.marked]
    /\ UNCHANGED <<stage_vars, pipeline_vars, process_vars, source>>

\* lines 823-826: a function without the attribute contributes its name
RecordName ==
    /\ fp.status = "running"
    /\ TopFrame.todo # <<>>
    /\ ~Descends
    /\ fp' = [fp EXCEPT !.stack = WithoutNextItem]
    /\ UNCHANGED <<stage_vars, pipeline_vars, process_vars, source>>

\* line 843: the call returns its bytes
ReturnHash ==
    /\ fp.status = "running"
    /\ TopFrame.todo = <<>>
    /\ fp' = [fp EXCEPT !.stack = SubSeq(fp.stack, 1, Len(fp.stack) - 1),
                        !.status = IF Len(fp.stack) = 1 THEN "done" ELSE "running"]
    /\ UNCHANGED <<stage_vars, pipeline_vars, process_vars, source>>

InitRecursion ==
    /\ files = [p \in Paths |-> "c1"]
    /\ hash_output = TRUE
    /\ \E ref \in RefStyles, decorated, rec \in BOOLEAN :
          /\ source = [doc |-> BaseF.doc, k |-> BaseF.k, op |-> BaseF.op, lc |-> BaseF.lc,
                       ref |-> ref, decorated |-> decorated, rec |-> rec]
          /\ fp = [NoFingerprinting EXCEPT !.marked = IF decorated THEN {"f"} ELSE {}]
    /\ func_bytes = "bc1"
    /\ cache_dir_exists = FALSE
    /\ stage_file = NoFile
    /\ inputs_file = AbsentJson
    /\ outputs_file = AbsentJson
    /\ func_kind = "single"
    /\ stage_outputs = <<"o">>
    /\ stage_args = EmptyDict
    /\ stage_input_args = EmptyDict
    /\ stage_results = EmptyDict
    /\ stage_has_run = FALSE
    /\ stage_from_hash = FALSE
    /\ runs = 0
    /\ last = NoRun
    /\ touched = FALSE
    /\ NoPipeline
    /\ NoProcess

NextRecursion ==
    \/ StartHash
    \/ Recurse
    \/ RecordName
    \/ ReturnHash

SpecRecursion == InitRecursion /\ [][NextRecursion]_vars

(***************************************************************************)
(* Run calls over value maps of every shape: scalars, strings, lists,      *)
(* tuples and string-keyed mappings, among them mappings that have the     *)
(* keys of a file record themselves.                                       *)
(***************************************************************************)
ValueArgs ==
    {<<PyInt(1)>>, <<PyStr("s")>>, <<PyStr("F")>>,
     <<PyList(<<PyStr("F"), PyStr("s")>>)>>,
     <<PyList(<<PyDict([k |-> PyStr("F")])>>)>>,
     <<PyDict([k |-> PyList(<<PyStr("F")>>)])>>,
     <<PyTuple(<<PyStr("F")>>)>>,
     <<PyDict([file |-> PyStr("s"), hash |-> PyInt(1)])>>,
     <<PyList(<<PyDict([file |-> PyStr("F"), hash |-> PyStr("s"), size |-> PyInt(1)])>>)>>}

InitValues ==
    /\ files = [p \in Paths |-> "c1"]
    /\ hash_output = TRUE
    /\ InitStage({<<"single", <<"o">> >>})

NextValues ==
    \/ \E args \in ValueArgs : Run(args, EmptyDict, FALSE, FALSE, FALSE)
    \/ \E p \in Editable, c \in Contents : WriteFile(p, c)
    \/ \E p \in Editable : DeleteFile(p)

SpecValues == InitValues /\ [][NextValues]_vars

(***************************************************************************)
(* helpers.working_directory: a scope that changes the working directory   *)
(* and changes it back when it is left                                     *)
(***************************************************************************)
Dirs == {OrigDir, "d1", "d2"}
MissingDir == "missing"

\* os.chdir(path), line 354: fails on a directory that does not exist
chdir_ok(path) == path \in Dirs

\* the finally clause, lines 360-362, unlike the code after a plain yield
exit_cwd_no_finally(saved, current, raised) == IF raised THEN current ELSE saved

exit_cwd(saved, current, raised) == saved

\* with working_directory(path): the scope is entered
EnterScope(path) ==
    /\ Len(scopes) < MaxDepth
    /\ IF chdir_ok(path)
       THEN /\ scopes' = Append(scopes, [saved |-> cwd, path |-> path])
            /\ cwd' = path
            /\ scope_exit' = [kind |-> "entered", saved |-> cwd, path |-> path]
       ELSE /\ scope_exit' = [kind |-> "FileNotFoundError", saved |-> cwd, path |-> path]
            /\ UNCHANGED <<cwd, scopes>>
    /\ UNCHANGED <<wrapper, writer, reader>>
    /\ UNCHANGED <<stage_vars, pipeline_vars, module_vars>>

\* the body of the innermost scope changes the directory itself
BodyChdir(path) ==
    /\ scopes # <<>>
    /\ chdir_ok(path)
    /\ path # cwd
    /\ cwd' = path
    /\ UNCHANGED <<scopes, scope_exit, wrapper, writer, reader>>
    /\ UNCHANGED <<stage_vars, pipeline_vars, module_vars>>

\* the innermost scope is left, at the end of its body or by an exception
ExitScope(raised) ==
    /\ scopes # <<>>
    /\ LET top == scopes[Len(scopes)] IN
       /\ cwd' = exit_cwd(top.saved, cwd, raised)
       /\ scope_exit' = [kind |-> IF raised THEN "raised" ELSE "normal",
                         saved |-> top.saved, path |-> top.path]
    /\ scopes' = SubSeq(scopes, 1, Len(scopes) - 1)
    /\ UNCHANGED <<wrapper, writer, reader>>
    /\ UNCHANGED <<stage_vars, pipeline_vars, module_vars>>

InitScopes ==
    /\ files = [p \in Paths |-> "c1"]
    /\ hash_output = FALSE
    /\ InitStage({<<"single", <<"o">> >>})

NextScopes ==
    \/ \E path \in Dirs \cup {MissingDir} : EnterScope(path)
    \/ \E path \in Dirs : BodyChdir(path)
    \/ \E raised \in BOOLEAN : ExitScope(raised)

SpecScopes == InitScopes /\ [][NextScopes]_vars

(***************************************************************************)
(* scripts/memori.py: main of the memori command, without a cache          *)
(* directory. codes holds the exit code the wrapped command ends with in   *)
(* each branch (one branch in single-process mode).                        *)
(***************************************************************************)
ExitCodes == {0, 1, 2}

RECURSIVE SeqsUpTo(_, _)
SeqsUpTo(S, n) ==
    IF n = 0 THEN {<<>>}
    ELSE SeqsUpTo(S, n - 1) \cup {Append(q, x) : q \in {r \in SeqsUpTo(S, n - 1) : Len(r) = n - 1}, x \in S}

\* lines 120-122: the results of the branches are searched for the value 1
parallel_output(codes) == IF \E i \in DOMAIN codes : codes[i] = 1 THEN 1 ELSE 0

\* lines 142-143
kills_parent(kill, output) == kill

\* main is called: -p with its --argX values, or a single command; -k or not
Invoke(parallel, kill, codes) ==
    /\ wrapper.phase = "none"
    /\ parallel \/ Len(codes) = 1
    /\ wrapper' = [phase |-> IF parallel /\ codes = <<>> THEN "ValueError" ELSE "running",
                   parallel |-> parallel, kill |-> kill, codes |-> codes, done |-> {},
                   returned |-> -1, signalled |-> FALSE]
    /\ UNCHANGED <<cwd, scopes, scope_exit, writer, reader>>
    /\ UNCHANGED <<stage_vars, pipeline_vars, module_vars>>

\* the wrapped command of one branch ends
BranchEnds(i) ==
    /\ wrapper.phase = "running"
    /\ i \in DOMAIN wrapper.codes
    /\ i \notin wrapper.done
    /\ wrapper' = [wrapper EXCEPT !.done = @ \cup {i}]
    /\ UNCHANGED <<cwd, scopes, scope_exit, writer, reader>>
    /\ UNCHANGED <<stage_vars, pipeline_vars, module_vars>>

\* lines 117-146: all results are in; main kills and returns
Return ==
    /\ wrapper.phase = "running"
    /\ wrapper.done = DOMAIN wrapper.codes
    /\ LET output == IF wrapper.parallel THEN parallel_output(wrapper.codes)
                     ELSE wrapper.codes[1]
       IN  wrapper' = [wrapper EXCEPT !.phase = "returned", !.returned = output,
                                      !.signalled = kills_parent(wrapper.kill, output)]
    /\ UNCHANGED <<cwd, scopes, scope_exit, writer, reader>>
    /\ UNCHANGED <<stage_vars, pipeline_vars, module_vars>>

InitWrapper ==
    /\ files = [p \in Paths |-> "c1"]
    /\ hash_output = FALSE
    /\ InitStage({<<"single", <<"o">> >>})

NextWrapper ==
    \/ \E parallel, kill \in BOOLEAN, codes \in SeqsUpTo(ExitCodes, MaxBranches) :
          Invoke(parallel, kill, codes)
    \/ \E i \in 1..MaxBranches : BranchEnds(i)
    \/ Return

SpecWrapper == InitWrapper /\ [][NextWrapper]_vars

(***************************************************************************)
(* Two processes on one cache directory.  One process is in a run call     *)
(* that writes the three cache files: _write_stage_hash and _write_io_hash *)
(* open the file for writing, which empties it, and then write the new     *)
(* content.  Another process reads a cache file (_check_stage_hash,        *)
(* _check_io_hash, _load_results_from_hash) at any moment.                 *)
(***************************************************************************)
CacheFileNames == {"stage", "inputs", "outputs"}

\* the run call up to the point where _write_hashes is entered
BeginWrite(args) ==
    LET out == run_outcome(args, EmptyDict, FALSE, FALSE, FALSE) IN
    /\ writer.point = 0
    /\ runs < MaxRuns
    /\ out.write
    /\ runs' = runs + 1
    /\ stage_input_args' = out.input_args
    /\ stage_results' = out.results
    /\ stage_has_run' = out.has_run
    /\ stage_from_hash' = out.from_hash
    /\ cache_dir_exists' = TRUE
    /\ last' = Observe("returned", args, EmptyDict, FALSE, FALSE, FALSE, out, TRUE)
    /\ touched' = FALSE
    /\ writer' = [point |-> 1, stage |-> func_bytes,
                  inputs |-> written_inputs(files, out.input_args),
                  outputs |-> written_outputs(files, out.results),
                  previous |-> [stage |-> stage_file, inputs |-> inputs_file,
                                outputs |-> outputs_file]]
    /\ UNCHANGED <<files, func_bytes, stage_file, inputs_file, outputs_file, hash_output,
                   func_kind, stage_outputs, stage_args>>
    /\ UNCHANGED <<pipeline_vars, module_vars, cwd, scopes, scope_exit, wrapper, reader>>

\* the next step of _write_hashes: open(hash_file, "wb" or "w") leaves the
\* file empty, write or json.dump followed by the close leaves the new content
WriteStep ==
    /\ writer.point # 0
    /\ stage_file' = IF writer.point = 1 THEN PartialBytes
                     ELSE IF writer.point = 2 THEN writer.stage ELSE stage_file
    /\ inputs_file' = IF writer.point = 3 THEN CorruptJson
                      ELSE IF writer.point = 4 THEN writer.inputs ELSE inputs_file
    /\ outputs_file' = IF writer.point = 5 THEN CorruptJson
                       ELSE IF writer.point = 6 THEN writer.outputs ELSE outputs_file
    /\ writer' = [writer EXCEPT !.point = IF writer.point = 6 THEN 0 ELSE writer.point + 1]
    /\ UNCHANGED <<files, func_bytes, cache_dir_exists, hash_output, func_kind,
                   stage_outputs, stage_args, stage_input_args, stage_results,
                   stage_has_run, stage_from_hash, runs, last, touched>>
    /\ UNCHANGED <<pipeline_vars, module_vars, cwd, scopes, scope_exit, wrapper, reader>>

\* the content of a cache file now
file_content(name) ==
    IF name = "stage" THEN stage_file
    ELSE IF name = "inputs" THEN inputs_file ELSE outputs_file

\* another process reads a cache file
ReadFile(name) ==
    /\ reader' = [file |-> name, content |-> file_content(name),
                  previous |-> writer.previous[name], new |-> writer[name]]
    /\ UNCHANGED <<stage_vars, pipeline_vars, module_vars, cwd, scopes, scope_exit,
                   wrapper, writer>>

InitConcurrent ==
    /\ files = [p \in Paths |-> "c1"]
    /\ hash_output = TRUE
    /\ InitStage(PlainShapes)

NextConcurrent ==
    \/ \E args \in ScalarArgs : BeginWrite(args)
    \/ WriteStep
    \/ \E name \in CacheFileNames : ReadFile(name)

SpecConcurrent == InitConcurrent /\ [][NextConcurrent]_vars

(***************************************************************************)
(* Vocabulary of the claims                                                *)
(***************************************************************************)
\* this step is a call of run
IsRunStep == runs' = runs + 1
NoFlags(obs) == ~obs.force_skip_stage /\ ~obs.force_run_stage /\ ~obs.force_hash_write
SameCall(o1, o2) == o1.args = o2.args /\ o1.kwargs = o2.kwargs
Completed(obs) == obs.kind \in {"returned", "raised"}

\* the three conditions of a cache hit, read off the cache files, the code and
\* the files on disk
StageBytesEqual == stage_file = func_bytes
DigestsOf(fs, d) == unhash_files_in_dict(hash_files_in_dict(fs, d), "hash")
InputsProjEqual(input_args) ==
    /\ inputs_file.st = "json"
    /\ unhash_files_in_dict(inputs_file.data, "hash") = DigestsOf(files, input_args)
OutputsProjEqual ==
    /\ outputs_file.st = "json"
    /\ unhash_files_in_dict(outputs_file.data, "hash")
          = DigestsOf(files, unhash_files_in_dict(outputs_file.data, "file"))

\* C1: with a cache directory, the second of two consecutive run calls with
\* identical inputs and no force flags (nothing changed in between) returns
\* the results of the first, does not call the callable, is marked
\* loaded-from-cache and has ran_this_call false.
C1_SecondRunLoads ==
    [][(/\ IsRunStep
        /\ hash_output
        /\ last.kind = "returned" /\ last'.kind = "returned"
        /\ NoFlags(last) /\ NoFlags(last')
        /\ SameCall(last, last')
        /\ ~touched)
       => (/\ last'.ncalls = 0
           /\ stage_from_hash'
           /\ ~stage_has_run'
           /\ last'.results = last.results)]_vars

\* C2: in a run without force flags and with a cache directory the callable
\* is skipped only if the .stage bytes equal the fingerprint, the digests of
\* the persisted .inputs equal those of the current inputs, and .outputs
\* exists with digests equal to those of its values on disk now; if any of
\* the three fails the callable is executed.
C2_SkipIffAllMatch ==
    [][(/\ IsRunStep
        /\ hash_output
        /\ NoFlags(last'))
       => LET all == StageBytesEqual /\ InputsProjEqual(stage_input_args')
                        /\ OutputsProjEqual
          IN  /\ (last'.ncalls = 0 => all)
              /\ (~all => last'.ncalls = 1)]_vars

\* C3: when the bytes of a file named anywhere in the effective inputs (top
\* level, or inside mappings, lists or tuples at any depth) are replaced by
\* different bytes, the next run without force flags executes the callable
\* (the input comparison has failed).
C3_ChangedInputFileRuns ==
    [][(/\ IsRunStep
        /\ hash_output
        /\ last.kind = "returned" /\ last.wrote
        /\ NoFlags(last') /\ SameCall(last, last')
        /\ \E p \in PathsIn(stage_input_args') :
              /\ last.files[p] # NoFile /\ files[p] # NoFile
              /\ files[p] # last.files[p])
       => last'.ncalls = 1]_vars

\* the persisted .inputs records a file at key k, and the call supplies at k
\* another path whose file has the recorded bytes
RenamedSameBytes(input_args) ==
    /\ inputs_file.st = "json"
    /\ DOMAIN inputs_file.data = DOMAIN input_args
    /\ \E k \in DOMAIN input_args :
          LET rec == inputs_file.data[k]
              now == input_args[k]
          IN  /\ rec.t = "dict" /\ DOMAIN rec.v = {"file", "hash"}
              /\ now.t = "str" /\ isfile(files, now.v)
              /\ now # rec.v.file
              /\ rec.v.hash = PyStr(Sha256(files[now.v]))
              /\ \A j \in DOMAIN input_args \ {k} :
                    inputs_file.data[j] = json_value(input_args[j])

\* C4 as stated: an input file supplied under another path with the same
\* bytes as the recorded file makes the input comparison fail, and a run
\* without force flags executes the callable.
C4_RenamedFileRuns ==
    [][(/\ IsRunStep
        /\ hash_output
        /\ NoFlags(last')
        /\ RenamedSameBytes(stage_input_args'))
       => last'.ncalls = 1]_vars

\* C4 amended: an input file supplied under another path with the same bytes
\* as the recorded file leaves the input comparison true (only digests are
\* compared), and a run without force flags skips the callable whenever the
\* .stage bytes and the outputs match too.
C4_RenamedFileStillHits ==
    [][(/\ IsRunStep
        /\ hash_output
        /\ NoFlags(last')
        /\ RenamedSameBytes(stage_input_args')
        /\ StageBytesEqual /\ OutputsProjEqual
        /\ outputs_have_keys(stage_outputs, outputs_file.data))
       => (/\ last'.kind = "returned"
           /\ last'.ncalls = 0
           /\ stage_from_hash')]_vars

\* a run was supplied G while .inputs records F, and it loaded from the cache
C4_Witness ==
    /\ last.kind = "returned" /\ last.ncalls = 0 /\ NoFlags(last)
    /\ last.args = <<PyStr("G")>>
    /\ inputs_file.st = "json"
    /\ "a" \in DOMAIN inputs_file.data
    /\ inputs_file.data["a"].t = "dict"
    /\ inputs_file.data["a"].v.file = PyStr("F")

\* C5: when .inputs or .outputs is not parseable JSON a run without force
\* flags raises no error, executes the callable and leaves a well-formed
\* cache entry.
C5_CorruptIsMiss ==
    [][(/\ IsRunStep
        /\ hash_output
        /\ NoFlags(last') /\ Completed(last')
        /\ (inputs_file.st = "corrupt" \/ outputs_file.st = "corrupt"))
       => (/\ last'.kind = "returned"
           /\ last'.ncalls = 1
           /\ inputs_file'.st = "json"
           /\ outputs_file'.st = "json")]_vars

\* C6: the run after a run that was interrupted while the cache files were
\* being written, without force flags and for any inputs, when it returns,
\* returns the callable's result for its inputs and never outputs that were
\* persisted for other inputs.
C6_RunAfterInterruptIsCorrect ==
    [][(/\ IsRunStep
        /\ last.kind = "interrupted"
        /\ NoFlags(last')
        /\ last'.kind = "returned")
       => last'.correct]_vars

\* C7: a run with force_run executes the callable exactly once, whatever the
\* cache state and whatever force_skip, and is not marked loaded-from-cache.
C7_ForceRunCalls ==
    [][(/\ IsRunStep
        /\ last'.force_run_stage /\ Completed(last'))
       => (/\ last'.ncalls = 1
           /\ ~stage_from_hash')]_vars

\* C8 as stated: a run with force_skip and without force_run, in any state,
\* does not call the callable and returns the path projection of the
\* persisted .outputs, marked loaded-from-cache.
C8_ForceSkipAlwaysLoads ==
    [][(/\ IsRunStep
        /\ last'.force_skip_stage /\ ~last'.force_run_stage /\ Completed(last'))
       => (/\ last'.ncalls = 0
           /\ last'.kind = "returned"
           /\ outputs_file.st = "json"
           /\ last'.results = unhash_files_in_dict(outputs_file.data, "file")
           /\ stage_from_hash')]_vars

\* C8 amended: a run with force_skip and without force_run never calls the
\* callable; when a cache directory is set and .outputs exists and parses
\* it returns the path projection of the persisted .outputs, marked
\* loaded-from-cache; otherwise (no cache directory, .outputs missing or
\* unparseable) it raises an error.
C8_ForceSkipLoadsOrRaises ==
    [][(/\ IsRunStep
        /\ last'.force_skip_stage /\ ~last'.force_run_stage /\ Completed(last'))
       => (/\ last'.ncalls = 0
           /\ IF hash_output /\ outputs_file.st = "json"
              THEN /\ last'.kind = "returned"
                   /\ last'.results = unhash_files_in_dict(outputs_file.data, "file")
                   /\ stage_results' = last'.results
                   /\ stage_from_hash'
              ELSE /\ last'.kind = "raised"
                   /\ last'.error \in {"AttributeError", "FileNotFoundError",
                                       "JSONDecodeError"})]_vars

\* a force-skip returned results that are not the callable's for its inputs
C8_Witness ==
    /\ last.force_skip_stage /\ ~last.force_run_stage
    /\ Stale(last)
    /\ "p" \in DOMAIN last.results

\* C9 as stated: after a force-skip on inputs i, with or without
\* force_hash_write, that returned the outputs of other inputs, the next run
\* on i without force flags executes the callable and returns its result.
C9_RunAfterSkipRestores ==
    (last.prior_skip # "none" /\ NoFlags(last) /\ Completed(last))
       => (last.kind = "returned" /\ last.ncalls = 1 /\ last.correct)

\* C9 amended: after a force-skip on inputs i without force_hash_write that
\* returned outputs of a cache entry whose .inputs do not match i, the next
\* run on i without force flags executes the callable and returns its result.
C9_RunAfterPlainSkipRestores ==
    [][(/\ IsRunStep
        /\ Stale(last) /\ last.force_skip_stage /\ ~last.force_run_stage
        /\ ~last.force_hash_write
        /\ SameCall(last, last') /\ ~touched
        /\ NoFlags(last') /\ Completed(last')
        /\ ~InputsProjEqual(stage_input_args'))
       => (/\ last'.kind = "returned"
           /\ last'.ncalls = 1
           /\ last'.correct
           /\ stage_results' = expected_results(files, stage_input_args'))]_vars

\* a run without force flags followed a stale force-skip of the same call
\* and called the callable
C9_Witness ==
    /\ last.prior_skip = "skip"
    /\ NoFlags(last)
    /\ last.kind = "returned" /\ last.ncalls = 1 /\ last.correct

\* C10: a run that returns writes the cache entry iff a cache directory is
\* set and (the callable executed or force_hash_write); a write leaves the
\* directory and all three files holding the fingerprint and the
\* canonicalised inputs and outputs; without a write, and in a run that
\* raises, all three files are unchanged.
C10_WriteIffRanOrForced ==
    [][(IsRunStep /\ Completed(last'))
       => (/\ last'.kind = "raised" => ~last'.wrote
           /\ last'.kind = "returned" =>
                 (last'.wrote <=> (hash_output /\ (last'.ncalls = 1 \/ last'.force_hash_write)))
           /\ last'.wrote =>
                 /\ cache_dir_exists'
                 /\ stage_file' = func_bytes
                 /\ inputs_file' = JsonFile(json_dict(hash_files_in_dict(files, stage_input_args')))
                 /\ outputs_file' = JsonFile(json_dict(hash_files_in_dict(files, stage_results')))
           /\ ~last'.wrote =>
                 UNCHANGED <<cache_dir_exists, stage_file, inputs_file, outputs_file>>)]_vars

\* a run loaded its results from the cache and wrote the entry because of
\* force_hash_write alone, creating the directory
C10_Witness ==
    /\ last.kind = "returned" /\ last.wrote
    /\ last.ncalls = 0 /\ last.force_hash_write
    /\ stage_file = func_bytes

\* the labels a stage declares
Labels(outs) == {outs[i] : i \in DOMAIN outs}

\* C11: after every run that returns (the callable executed and returned any
\* number of values, or the results were loaded from the cache) the key set
\* of the stage's results equals the set of declared output labels.
C11_ResultKeysAreLabels ==
    last.kind = "returned" => DOMAIN stage_results = Labels(stage_outputs)

\* the map the claim describes: each declared parameter is bound to its
\* pinned value if pinned, else to the named value of the call, else to the
\* positional value at its position
ParamPosition(name) == CHOOSE i \in DOMAIN stage_inputs : stage_inputs[i] = name
EffectiveInputsOfCall(args, kwargs, pinned) ==
    [name \in {n \in DeclaredParams : \/ n \in DOMAIN pinned
                                      \/ n \in DOMAIN kwargs
                                      \/ ParamPosition(n) <= Len(args)} |->
        IF name \in DOMAIN pinned THEN pinned[name]
        ELSE IF name \in DOMAIN kwargs THEN kwargs[name]
        ELSE args[ParamPosition(name)]]

\* C12: the callable is invoked with exactly the map that binds each declared
\* parameter to its pinned value if pinned, otherwise to the named value given
\* in the call, otherwise to the positional value at its position.
C12_CallableGetsBoundInputs ==
    [][(IsRunStep /\ last'.ncalls = 1)
       => stage_input_args' = EffectiveInputsOfCall(last'.args, last'.kwargs, stage_args)]_vars

\* C13: setting a pinned input whose name is not declared fails with
\* ValueError; deleting one whose name is not declared fails with ValueError
\* and deleting a declared but unpinned name fails with KeyError; every
\* failing call leaves the pinned map unchanged and every succeeding call
\* sets or removes exactly the named entry.
C13_SetDelValidate ==
    [][/\ last'.kind = "set_stage_arg" =>
            LET arg == last'.args[1].v
                value == last'.args[2]
            IN  IF arg \notin DeclaredParams
                THEN last'.error = "ValueError" /\ stage_args' = stage_args
                ELSE /\ last'.error = ""
                     /\ DOMAIN stage_args' = DOMAIN stage_args \cup {arg}
                     /\ stage_args'[arg] = value
                     /\ \A k \in DOMAIN stage_args \ {arg} : stage_args'[k] = stage_args[k]
       /\ last'.kind = "del_stage_arg" =>
            LET arg == last'.args[1].v
            IN  IF arg \notin DeclaredParams
                THEN last'.error = "ValueError" /\ stage_args' = stage_args
                ELSE IF arg \notin DOMAIN stage_args
                THEN last'.error = "KeyError" /\ stage_args' = stage_args
                ELSE /\ last'.error = ""
                     /\ DOMAIN stage_args' = DOMAIN stage_args \ {arg}
                     /\ \A k \in DOMAIN stage_args' : stage_args'[k] = stage_args[k]]_vars

\* a declared but unpinned name was deleted while another name stayed pinned
C13_Witness ==
    /\ last.kind = "del_stage_arg" /\ last.error = "KeyError"
    /\ last.args = <<PyStr("a")>>
    /\ DOMAIN stage_args = {"b"}

AliasTargets(stage_aliases) == {stage_aliases[i][2] : i \in DOMAIN stage_aliases}

\* C14: for an alias map whose targets are keys of the stage's results, what
\* the results property returns has results[alias] = results[target] for every
\* entry of the map and holds every real output key.
C14_AliasEqualsTarget ==
    \A name \in StageNames :
       LET st_results == pl_stages[name].stage_results
           stage_aliases == pl_config[name].stage_aliases
           r == results(st_results, stage_aliases)
       IN  AliasTargets(stage_aliases) \subseteq DOMAIN st_results =>
              /\ r.error = ""
              /\ DOMAIN st_results \subseteq DOMAIN r.results
              /\ \A i \in DOMAIN stage_aliases :
                    r.results[stage_aliases[i][1]] = r.results[stage_aliases[i][2]]

\* a step of Pipeline.run in which the edge's stage was run
IsEdgeRun == pc # 0 /\ Len(pl_log') = Len(pl_log) + 1
EdgeRun == pl_log'[Len(pl_log')]
IsStartEdge(edge) == ~edge.tuple /\ edge.input_stages = <<"start">>

\* the union, in listed order, of what the predecessors produced, their
\* aliases included
RECURSIVE ProducedView(_, _, _)
ProducedView(input_stages, i, view) ==
    IF i > Len(input_stages) THEN view
    ELSE LET s == input_stages[i] IN
         ProducedView(input_stages, i + 1,
                      Update(view, results(pl_stages[s].produced,
                                           pl_config[s].stage_aliases).results))

ExpectedInputs(edge) ==
    LET view == Update(ProducedView(edge.input_stages, 1, EmptyDict),
                       pl_config[edge.stage].stage_args)
        declared == {pl_config[edge.stage].stage_inputs[i] :
                        i \in DOMAIN pl_config[edge.stage].stage_inputs}
    IN  [arg \in declared \cap DOMAIN view |-> view[arg]]

\* C15: on every non-start edge the downstream callable receives, for each
\* declared parameter that is a key of the combined view (the predecessors'
\* results in listed order, then the pinned values), exactly the value the
\* predecessor produced, and nothing else.
C15_DownstreamReceivesProduced ==
    [][(IsEdgeRun /\ ~IsStartEdge(edge_at(definition, pc)) /\ EdgeRun.called)
          => EdgeRun.received = ExpectedInputs(edge_at(definition, pc))]_vars

RunReturned == pl_runs > 0 /\ pc = 0 /\ pl_error = ""

\* C16: Pipeline.run runs the stages strictly in list order, one at a time:
\* the i-th stage run is the stage of the i-th edge, an edge is reached only
\* when the stages of all edges before it have returned, a run that returns
\* has run each edge's stage exactly once, and a consumer listed before its
\* predecessor is still run first.
C16_ListOrder ==
    /\ Len(pl_log) <= Len(definition)
    /\ \A i \in DOMAIN pl_log : pl_log[i].stage = definition[i].stage
    /\ \A i \in DOMAIN pl_log : i < Len(pl_log) => pl_log[i].error = ""
    /\ pc # 0 => Len(pl_log) = pc - 1
    /\ RunReturned => Len(pl_log) = Len(definition)

C16_Witness ==
    /\ RunReturned
    /\ definition = <<Bare("A", "C"), Bare("start", "A")>>
    /\ pl_log[1].stage = "C" /\ pl_log[1].called
    /\ pl_log[2].stage = "A" /\ pl_log[2].called

DeclaredInputs(name) ==
    {pl_config[name].stage_inputs[i] : i \in DOMAIN pl_config[name].stage_inputs}

\* the alias of predecessor number i of the edge reaches the stage to run:
\* the name is a declared parameter, is not pinned, and no later predecessor
\* publishes the same key
AliasRouted(edge, i, alias) ==
    /\ alias \in DeclaredInputs(edge.stage)
    /\ alias \notin DOMAIN pl_config[edge.stage].stage_args
    /\ \A j \in DOMAIN edge.input_stages :
          j > i => alias \notin DOMAIN results(pl_stages[edge.input_stages[j]].stage_results,
                                               pl_config[edge.input_stages[j]].stage_aliases).results

RealOutputKeys ==
    UNION {Labels(pl_config[name].stage_outputs) : name \in StageNames}

StageRaised == IsEdgeRun /\ EdgeRun.error # ""

\* C18: when a stage raises during Pipeline.run, on a start edge or on a
\* stage-fed edge, the same error leaves Pipeline.run, no later stage of the
\* list is run, and the pipeline results are what they were before the
\* failing stage ran.
C18_FailingStageContributesNothing ==
    [][StageRaised =>
          /\ pl_error' = EdgeRun.error
          /\ pc' = 0
          /\ Len(pl_log') = pc
          /\ DOMAIN pipeline_results' = DOMAIN pipeline_results
          /\ Deref(heap', pipeline_results') = Deref(heap, pipeline_results)]_vars

ValidElement(e) == e \in StageNames \/ e = "start"

\* a definition run can walk: every downstream element is a Stage, and the
\* predecessors are Stages or the bare start sentinel
WellShaped(defn) ==
    \A i \in DOMAIN defn :
       /\ defn[i].stage \in StageNames
       /\ \/ IsStartEdge(defn[i])
          \/ \A j \in DOMAIN defn[i].input_stages : defn[i].input_stages[j] \in StageNames

\* C19: construction fails with ValueError whenever an element of the
\* definition is neither a Stage nor the start sentinel, every definition it
\* accepts has a Stage as the downstream element of every edge and only
\* Stages or the bare start sentinel as predecessors, and run never fails
\* because of the shape of the definition.
C19_AcceptedDefinitionsAreWellShaped ==
    /\ pl_status # "new" =>
          /\ (\E e \in elements_of(definition) : ~ValidElement(e)) => pl_status = "ValueError"
          /\ pl_status = "ok" => WellShaped(definition)
    /\ pl_error # "AttributeError"

\* f carries the opt-in marker: it is decorated, or g wraps it in the marker
Marked(src) == src.decorated \/ src.ref = "inline_marker"
BodyChanged(src) == \E field \in BodyFields : src[field] # BaseF[field]

\* C20: when the callable g refers to a function f that carries the opt-in
\* marker, a change of f's compiled body (instruction bytes or a constant that
\* is not the docstring) changes get_func_hash(g), and the next run of a stage
\* wrapping g, whose cache was written before the change, calls g again.
C20_MarkedBodyChangeMisses ==
    [][/\ (source' # source /\ Marked(source) /\ BodyChanged(source'))
             => func_bytes' # func_bytes
       /\ (IsRunStep /\ touched /\ Marked(source) /\ BodyChanged(source)
              /\ stage_file # NoFile)
             => last'.ncalls = 1]_vars

\* the fingerprint of f itself
FingerprintOfF(src) == get_func_hash(f_code(src), src)

\* C21: two callables that differ only in their leading docstring (of the
\* callable itself or of an opted-in callable it references) have the same
\* fingerprint, while the first constant of a compiled body that is not a
\* docstring (here the constant of the comprehension in f) is part of the
\* fingerprint, so that changing it changes the fingerprint of f.
C21_OnlyDocstringDropped ==
    [][source' # source =>
          /\ source'.doc # source.doc =>
                /\ FingerprintOfF(source') = FingerprintOfF(source)
                /\ func_bytes' = func_bytes
          /\ source'.lc # source.lc => FingerprintOfF(source') # FingerprintOfF(source)]_vars

IsFileRecord(x) == x.t = "dict" /\ DOMAIN x.v = {"file", "hash"}

\* the strings of a persisted value that name an existing file and stand
\* bare, outside any file record
RECURSIVE BarePaths(_, _)
BarePaths(fs, x) ==
    IF x.t = "str" THEN (IF isfile(fs, x.v) THEN {x.v} ELSE {})
    ELSE IF x.t \in {"list", "tuple"} THEN UNION {BarePaths(fs, x.v[i]) : i \in DOMAIN x.v}
    ELSE IF x.t = "dict"
    THEN IF IsFileRecord(x) THEN {} ELSE UNION {BarePaths(fs, x.v[k]) : k \in DOMAIN x.v}
    ELSE {}

\* the file records of a persisted value carry the digest of the file's bytes
RECURSIVE RecordsDigestFiles(_, _)
RecordsDigestFiles(fs, x) ==
    IF x.t \in {"list", "tuple"} THEN \A i \in DOMAIN x.v : RecordsDigestFiles(fs, x.v[i])
    ELSE IF x.t = "dict"
    THEN IF IsFileRecord(x)
         THEN x.v["file"].t = "str" /\ isfile(fs, x.v["file"].v)
                 /\ x.v["hash"] = PyStr(Sha256(fs[x.v["file"].v]))
         ELSE \A k \in DOMAIN x.v : RecordsDigestFiles(fs, x.v[k])
    ELSE TRUE

PersistedCanonical(fs, cache_file) ==
    /\ cache_file.st = "json"
    /\ BarePaths(fs, PyDict(cache_file.data)) = {}
    /\ RecordsDigestFiles(fs, PyDict(cache_file.data))

\* C22: after a run that writes the cache entry, in the persisted .inputs
\* and .outputs every string, at any depth inside mappings and sequences,
\* that names an existing file at write time is a {file, hash} record with
\* the SHA-256 of the file's bytes; no bare string names an existing file.
C22_PersistedPathsAreRecords ==
    [][(IsRunStep /\ last'.wrote) =>
          /\ PersistedCanonical(files, inputs_file')
          /\ PersistedCanonical(files, outputs_file')]_vars

\* C23: for every value map v built from scalars, strings, lists and
\* string-keyed mappings, projecting the canonicalised map back to paths
\* returns v, up to tuples becoming lists; checked on the canonical form a
\* run persists for its input map.
C23_ProjectCanonicaliseIsIdentity ==
    [][(IsRunStep /\ last'.wrote) =>
          unhash_files_in_dict(inputs_file'.data, "file") = json_dict(stage_input_args')]_vars

\* C24: for any nesting of working_directory scopes, when a scope is left,
\* normally or because its body raised, the working directory is the one
\* that was current when that scope was entered, and after the outermost
\* scope is left it is the original directory.
C24_DirectoryRestored ==
    [][Len(scopes') < Len(scopes) =>
          /\ cwd' = scopes[Len(scopes)].saved
          /\ scopes' = <<>> => cwd' = OrigDir]_vars

C24_Witness ==
    /\ scope_exit.kind = "raised"
    /\ Len(scopes) = 1
    /\ scope_exit.saved = "d1"
    /\ scope_exit.path = "d2"
    /\ cwd = "d1"

CommandFailed == \E i \in DOMAIN wrapper.codes : wrapper.codes[i] # 0

\* C25: the memori command returns the wrapped command's exit code in
\* single-process mode; in parallel mode it returns 1 if the command of any
\* branch ended with a non-zero code and 0 only if every branch ended with 0.
C25_ExitCode ==
    wrapper.phase = "returned" =>
       IF wrapper.parallel
       THEN wrapper.returned = (IF CommandFailed THEN 1 ELSE 0)
       ELSE wrapper.returned = wrapper.codes[1]

\* C26: with -k the command sends the kill signal to its parent process if
\* and only if the wrapped command failed; without -k, and when the wrapped
\* command succeeds, no signal is sent.
C26_KillOnlyOnFailure ==
    wrapper.phase = "returned" =>
       wrapper.signalled = (wrapper.kill /\ CommandFailed)

\* the stages a definition names
StagesOf(defn) == elements_of(defn) \cap StageNames
CacheFiles(st) == <<st.stage_file, st.inputs_file, st.outputs_file>>

\* C27: in a pipeline the constructor accepts, no two distinct stages
\* resolve to the same cache files (same cache directory and same stage
\* name), and the run of a stage leaves the cache files of every other stage
\* of the pipeline as they were.
C27_NoSharedCacheFiles ==
    [][/\ pl_status' = "ok" =>
             \A n1, n2 \in StagesOf(definition') :
                (n1 # n2 /\ pl_config'[n1].hash_output /\ pl_config'[n2].hash_output)
                   => cache_entry(pl_config'[n1]) # cache_entry(pl_config'[n2])
       /\ IsEdgeRun =>
             \A n \in StagesOf(definition) \ {EdgeRun.stage} :
                CacheFiles(pl_stages'[n]) = CacheFiles(pl_stages[n])]_vars

\* C28: cache soundness.  Over run calls without force flags on a stage with
\* a cache directory and a pure callable, with files edited and deleted
\* between the calls, a run that returns results loaded from the cache (the
\* callable is not called) returns what the callable would return for the
\* run's effective inputs and the files as they are during the run.
C28_CacheHitIsSound ==
    [][(/\ IsRunStep
        /\ hash_output
        /\ NoFlags(last')
        /\ last'.kind = "returned"
        /\ stage_from_hash'
        /\ last'.ncalls = 0)
       => last'.results = expected_results(files, stage_input_args')]_vars

\* the effective input map of a call that depends on nothing but the call's
\* positional and named values and the values pinned now
InputsOfThisCall(args, kwargs, pinned) == bind_inputs(EmptyDict, args, kwargs, pinned)

\* C29: the effective input map of a run is determined only by that call's
\* positional and named arguments and the values pinned at the time of the
\* call: no binding of an earlier run call and no pinned value that has since
\* been deleted is in the map the run keeps, compares and passes to the
\* callable, nor in the .inputs file the run writes.
C29_InputsDependOnThisCallOnly ==
    [][IsRunStep =>
          LET inputs == InputsOfThisCall(last'.args, last'.kwargs, stage_args)
          IN  /\ stage_input_args' = inputs
              /\ last'.wrote => inputs_file' = written_inputs(files, inputs)]_vars

\* the list objects a map holds
ListsOf(d) == {d[k].v : k \in {key \in DOMAIN d : d[key].t = "ref"}}

\* the list objects held by the results of the stages and by the pipeline's
\* accumulated results
HeldLists(stages, accumulated) ==
    ListsOf(accumulated) \cup UNION {ListsOf(stages[n].stage_results) : n \in DOMAIN stages}

\* C30: canonicalising a map, during the hit check or the cache write of a
\* stage run, changes nothing reachable from its argument: every list object
\* that existed before the stage ran has the content it had, and the lists
\* held by the stages' results and by the pipeline's accumulated results
\* hold no file record afterwards.
C30_CanonicaliseChangesNoList ==
    [][IsEdgeRun =>
          /\ \A i \in DOMAIN heap : heap'[i] = heap[i]
          /\ \A i \in HeldLists(pl_stages', pipeline_results') :
                \A j \in DOMAIN heap'[i] : ~IsFileRecord(heap'[i][j])]_vars

\* the file records inside a persisted value whose file is gone or has other
\* bytes than the recorded digest
RECURSIVE StaleRecords(_, _)
StaleRecords(fs, x) ==
    IF IsFileRecord(x)
    THEN (IF ~isfile(fs, x.v.file.v) \/ x.v.hash # PyStr(hash_file(fs, x.v.file.v))
          THEN {x} ELSE {})
    ELSE IF x.t = "list" THEN UNION {StaleRecords(fs, x.v[i]) : i \in DOMAIN x.v}
    ELSE IF x.t = "dict" THEN UNION {StaleRecords(fs, x.v[k]) : k \in DOMAIN x.v}
    ELSE {}

\* C31: when a file referenced by a file record of the persisted .outputs
\* has been deleted or has other bytes than when the entry was written, the
\* next run without force flags executes the callable, also when the stage
\* fingerprint and the inputs match.
C31_ChangedOutputFileRuns ==
    [][(/\ IsRunStep
        /\ hash_output
        /\ NoFlags(last')
        /\ outputs_file.st = "json"
        /\ StaleRecords(files, PyDict(outputs_file.data)) # {})
       => last'.ncalls = 1]_vars

\* a run without flags executed the callable although the fingerprint, the
\* inputs and the labels matched: a file of the persisted outputs had been
\* edited or deleted
C31_Witness ==
    /\ last.kind = "returned" /\ NoFlags(last)
    /\ last.ncalls = 1
    /\ last.touched
    /\ last.checks.stage /\ last.checks.input /\ last.checks.keys
    /\ ~last.checks.output

\* C32: when the callable raises during a run, the same error leaves run,
\* the three cache files (and the cache directory) are as they were before
\* the call, the stage's results are empty and ran_this_call is false.
C32_RaisingCallableLeavesCache ==
    [][(/\ IsRunStep
        /\ last'.ncalls = 1
        /\ function_to_call(func_kind, files, stage_input_args').error # "")
       => (/\ last'.kind = "raised"
           /\ last'.error = function_to_call(func_kind, files, stage_input_args').error
           /\ UNCHANGED <<cache_dir_exists, stage_file, inputs_file, outputs_file>>
           /\ stage_results' = EmptyDict
           /\ ~stage_has_run')]_vars

\* the callable raised in a run of a stage whose cache files had been written
\* by an earlier run
C32_Witness ==
    /\ last.kind = "raised" /\ last.ncalls = 1
    /\ last.error = "FileNotFoundError"
    /\ stage_file # NoFile /\ inputs_file.st = "json" /\ outputs_file.st = "json"
    /\ stage_results = EmptyDict

\* a cache file that holds a whole content: the bytes of a fingerprint, or
\* a JSON mapping
Complete(name, content) ==
    IF name = "stage" THEN content \notin {NoFile, PartialBytes}
    ELSE content.st = "json"

\* C33: a process that reads a cache file while another process overwrites
\* it (the file held a whole content when the write began) reads the whole
\* previous content or the whole new content, never an empty or partly
\* written file.
C33_ReadsAreAtomic ==
    (reader.file # "none" /\ Complete(reader.file, reader.previous))
       => reader.content \in {reader.previous, reader.new}

\* some declared output label is not a key of the persisted .outputs
LabelMissing(outs, cache_file) ==
    cache_file.st = "json" /\ ~outputs_have_keys(outs, cache_file.data)

\* C34: when a declared output label is not a key of the persisted .outputs,
\* a run without force flags executes the callable, also when the stage
\* fingerprint, the inputs and the digests of the persisted outputs match,
\* and after the run the persisted .outputs has every declared label.
C34_MissingLabelRunsAndRepairs ==
    [][(/\ IsRunStep
        /\ hash_output
        /\ NoFlags(last')
        /\ LabelMissing(stage_outputs, outputs_file))
       => (/\ last'.ncalls = 1
           /\ last'.kind = "returned" => ~LabelMissing(stage_outputs, outputs_file'))]_vars

\* recorded holds a file record at a place where supplied holds the same
\* path, and the file does not exist
RECURSIVE MissingRecorded(_, _, _)
MissingRecorded(fs, recorded, supplied) ==
    IF IsFileRecord(recorded)
    THEN supplied = recorded.v.file /\ ~isfile(fs, supplied.v)
    ELSE IF recorded.t = "list" /\ supplied.t \in {"list", "tuple"}
    THEN \E i \in DOMAIN recorded.v \cap DOMAIN supplied.v :
            MissingRecorded(fs, recorded.v[i], supplied.v[i])
    ELSE IF recorded.t = "dict" /\ supplied.t = "dict"
    THEN \E k \in DOMAIN recorded.v \cap DOMAIN supplied.v :
            MissingRecorded(fs, recorded.v[k], supplied.v[k])
    ELSE FALSE

\* C35: when an input that the persisted .inputs holds as a file record is
\* supplied again at the same path and the file no longer exists, the input
\* comparison is false, no error is raised by it, and a run without force
\* flags executes the callable.
C35_MissingInputFileRuns ==
    [][(/\ IsRunStep
        /\ hash_output
        /\ NoFlags(last')
        /\ inputs_file.st = "json"
        /\ MissingRecorded(files, PyDict(inputs_file.data), PyDict(stage_input_args')))
       => (/\ ~last'.checks.input
           /\ last'.ncalls = 1
           /\ last'.error = function_to_call(func_kind, files, stage_input_args').error)]_vars

\* a run after the recorded input file was deleted: the fingerprint matched,
\* the inputs did not, and the callable was called (it raised, so the
\* .inputs file still holds the record)
C35_Witness ==
    /\ last.ncalls = 1 /\ NoFlags(last)
    /\ last.kind = "raised"
    /\ last.checks.stage /\ ~last.checks.input
    /\ inputs_file.st = "json"
    /\ MissingRecorded(files, PyDict(inputs_file.data), PyDict(stage_input_args))

\* C36: a function f that the callable g refers to and that does not carry
\* the opt-in marker (it is not decorated and g does not wrap it in the
\* marker) contributes at most its qualified name to the fingerprint of g:
\* get_func_hash does not recurse into it, so that a change of f's body
\* leaves the fingerprint of g unchanged.
C36_UnmarkedBodyChangeKeeps ==
    [][(source' # source /\ ~Marked(source)) => func_bytes' = func_bytes]_vars

\* f is opted in (decorated, or wrapped in the marker by g) and calls itself
OptedInCycle(src) == Marked(src) /\ src.rec

\* C37: get_func_hash(g) returns if and only if no opted-in function that g
\* refers to can reach itself: a call that ends with RecursionError (the
\* recursion never ends) has an opted-in function on a cycle, and a call that
\* returns has none.
C37_TerminatesIffNoOptedInCycle ==
    /\ fp.status = "RecursionError" => OptedInCycle(source)
    /\ fp.status = "done" => ~OptedInCycle(source)

\* C38: after every run call that returns exactly one of stage_has_run
\* (ran_this_call) and stage_from_hash (loaded_from_cache) is true, and the
\* callable was invoked during that call if and only if stage_has_run is
\* true; in no reachable state are both true.
C38_RanXorLoaded ==
    /\ [](~(stage_has_run /\ stage_from_hash))
    /\ [][(IsRunStep /\ last'.kind = "returned")
            => (/\ stage_has_run' # stage_from_hash'
                /\ stage_has_run' <=> last'.ncalls = 1)]_vars

\* a forced run executed the callable although every comparison of the hit
\* check matched
C38_Witness ==
    /\ last.kind = "returned" /\ last.ncalls = 1
    /\ last.force_run_stage
    /\ last.checks.stage /\ last.checks.input /\ last.checks.output /\ last.checks.keys
    /\ stage_has_run /\ ~stage_from_hash

\* C39: in every reachable state of a stage, after construction with pinned
\* values and any sequence of set and delete operations, every key of the
\* pinned map is a declared input parameter name.
C39_PinnedKeysAreDeclared ==
    DOMAIN stage_args \subseteq DeclaredParams

\* C40: when a stage has no cache directory, every run without
\* force_skip_stage executes the callable, and no run reads, creates or
\* writes any cache file, whatever force_hash_write is.
C40_NoDirectoryNoCache ==
    [][(IsRunStep /\ ~hash_output)
       => (/\ ~last'.force_skip_stage => last'.ncalls = 1
           /\ ~last'.reads
           /\ ~last'.wrote
           /\ ~cache_dir_exists'
           /\ stage_file' = NoFile
           /\ inputs_file' = AbsentJson
           /\ outputs_file' = AbsentJson)]_vars

\* a second run of a stage without cache directory, with force_hash_write
\* and without force_skip_stage, has executed the callable and returned, and
\* there is no cache file
C40_Witness ==
    /\ ~hash_output
    /\ runs >= 2
    /\ last.kind = "returned" /\ last.ncalls = 1
    /\ last.force_hash_write /\ ~last.force_skip_stage /\ ~last.force_run_stage
    /\ ~last.reads /\ ~last.wrote
    /\ ~cache_dir_exists /\ stage_file = NoFile
    /\ inputs_file = AbsentJson /\ outputs_file = AbsentJson

====
